---------------------------- MODULE Spec2Model ----------------------------
(***************************************************************************)
(* A model of the finance-control frontend: the API client and the auth   *)
(* context (src/unnamed/part_000), the router (App), the login page, the  *)
(* wallets page, the wallet detail page and its quick-add confirmation    *)
(* modal.                                                                  *)
(*                                                                         *)
(* JavaScript strings are sequences of character codes, so that trim,     *)
(* split, btoa and atob are computed and not assumed.  null / undefined   *)
(* is the value Null.                                                      *)
(***************************************************************************)
EXTENDS Integers, Sequences, FiniteSets, TLC

VARIABLES
    sessionStorage,   \* the value under CREDENTIALS_KEY, or Null
    currentUser,      \* AuthProvider state: a string or Null
    location,         \* the router's current path (after every <Navigate>)
    loginPage,        \* LoginPage state: [isSubmitting, toast]
    loginPending,     \* login() calls awaiting the response of postJson
    registerPage,     \* RegisterPage state: [isSubmitting, toast]
    registerPending,  \* register requests awaiting their response: [mounted]
    registerTimer,    \* the setTimeout(navigate('/login'), 1500) of a successful registration is pending
    importPending,    \* handleCsvImport awaits the response of postFormData
    wallets,          \* WalletsPage state: the wallet list
    walletsPage,      \* WalletsPage state: [mounted, isLoading, showModal, newWalletName, newWalletCurrency, isSubmitting, toast]
    walletsFetching,  \* fetchWallets calls awaiting the response of getJson
    walletsCreating,  \* handleCreateWallet awaiting the response of postJson, with the wallets of its closure
    walletsCreated,   \* how many wallets the backend has created for this page
    transactions,     \* WalletDetailPage state: the transaction list
    wallet,           \* WalletDetailPage state: [loaded, balance] (balance in thousandths)
    categories,       \* WalletDetailPage state: the category list
    detailPage,       \* WalletDetailPage state: flags, quick-add text, draft
    form,             \* WalletDetailPage state: the create-transaction form
    confirmation,     \* TransactionConfirmationModal state: [mounted, type, amount, date, categoryId, subcategoryId]
    detailPending,    \* requests of WalletDetailPage awaiting their response
    transactionsCreated, \* how many transactions the backend has created for this page
    transactionsDeleted, \* the ids of the transactions the backend has deleted for this page
    filters,          \* WalletDetailPage state: [showFilters, filterType, filterFromDate, filterToDate]
    effectRuns,       \* how many times the load effect of WalletDetailPage ran again after a filter changed
    dashboard,        \* DashboardPage state: [mounted, isLoading, wallets, recentTransactions]
    dashboardFetching, \* fetchData calls of DashboardPage awaiting a response, with their locals
    worker,           \* service worker: [phase, cacheNames (what caches.keys() resolved with)]
    caches,           \* CacheStorage: the caches in creation order, each [name, entries]
    fetchEvents,      \* service worker: the fetch events it is handling, each at an await
    toastState,       \* useToast: the toast state, <<>> for null or <<[message, type]>>
    toastTimer,       \* Toast: the milliseconds left of its setTimeout, <<>> without one
    toastShownFor,    \* history: the milliseconds the current message has been visible
    categoriesPage,   \* CategoriesPage state: [mounted, isLoading, filterType]
    categoryList,     \* CategoriesPage state: categories
    categoriesPending, \* requests of CategoriesPage awaiting their response, with their closure
    apiResponse,      \* lib/api: the Response that fetch resolved with
    apiResult,        \* lib/api: what handleResponse returned or threw for it
    sent,             \* history: the requests the last handler handed to fetch
    lastLogin,        \* history: <<username, password>> of the last login() that returned true
    afterLogout,      \* history: logout() ran and no login() has returned true since
    lastEvent         \* history: what the last handler saw, for the handlers the properties speak of

authVars == <<sessionStorage, currentUser, location, loginPage, loginPending,
              registerPage, registerPending, registerTimer, importPending,
              lastLogin, afterLogout>>

walletsVars == <<wallets, walletsPage, walletsFetching, walletsCreating, walletsCreated>>

apiVars == <<apiResponse, apiResult>>

detailVars == <<transactions, wallet, categories, detailPage, form, confirmation,
                detailPending, transactionsCreated, transactionsDeleted, filters, effectRuns>>

dashboardVars == <<dashboard, dashboardFetching>>

\* the state of the components modelled after the three pages above
workerVars == <<worker, caches, fetchEvents>>

\* the state of the components modelled after DashboardPage
toastVars == <<toastState, toastTimer, toastShownFor>>

categoriesVars == <<categoriesPage, categoryList, categoriesPending>>

laterVars == <<workerVars, toastVars, categoriesVars>>

moreVars == <<dashboardVars, laterVars>>

pageVars == <<walletsVars, apiVars, detailVars, moreVars>>

\* what the handlers of WalletsPage leave alone
aroundWallets == <<authVars, apiVars, detailVars, moreVars>>

\* what no handler of WalletDetailPage touches (they may navigate)
besideDetail == <<sessionStorage, currentUser, loginPage, loginPending, registerPage,
                  registerPending, registerTimer, importPending, lastLogin, afterLogout,
                  walletsVars, apiVars, moreVars>>

\* what the handlers of WalletDetailPage leave alone, but for the one that
\* hears of a deletion, the filters, and the fetches that may navigate away
aroundDetail == <<besideDetail, transactionsDeleted, filters, effectRuns>>

\* what the handlers of DashboardPage leave alone
aroundDashboard == <<authVars, walletsVars, apiVars, detailVars, laterVars>>

\* what the service worker leaves alone
aroundWorker == <<authVars, walletsVars, apiVars, detailVars, dashboardVars, toastVars,
                  categoriesVars, sent>>

\* what useToast and Toast leave alone
aroundToast == <<authVars, walletsVars, apiVars, detailVars, dashboardVars, workerVars,
                 categoriesVars, sent>>

\* what the handlers of CategoriesPage leave alone
aroundCategories == <<authVars, walletsVars, apiVars, detailVars, dashboardVars, workerVars,
                      toastVars>>

vars == <<authVars, pageVars, sent, lastEvent>>

-----------------------------------------------------------------------------
(* Bounds *)

\* How many requests of the categories page may be awaiting their response at once.
MaxCategoryRequests == 2

\* How many fetch events the service worker may be handling at once.
MaxFetchEvents == 2

\* How many login() calls may be awaiting their response at once.
MaxLoginsInFlight == 2

\* How many register requests may be awaiting their response at once.
MaxRegistersInFlight == 1

\* How many fetchWallets calls may be awaiting their response at once.
MaxWalletFetchesInFlight == 2

\* How many wallets are created on the wallets page.
MaxWalletsCreated == 2

\* How many requests the user started on the wallet detail page (create, delete,
\* classify, confirm) may be awaiting their response at once.
MaxRequestsInFlight == 2

\* How many transactions are created on the wallet detail page.
MaxTransactionsCreated == 1

\* How many times the filters of the wallet detail page are changed.
MaxFilterChanges == 2

\* How many fetchData calls of the dashboard may be running at once.
MaxDashboardFetches == 2

-----------------------------------------------------------------------------
(* Strings *)

Null == <<-1>>

\* !x for a string-or-null x
Falsy(s) == s = Null \/ s = <<>>

RECURSIVE TrimStart(_)
TrimStart(s) ==
    IF s # <<>> /\ Head(s) = 32 THEN TrimStart(Tail(s)) ELSE s

RECURSIVE TrimEnd(_)
TrimEnd(s) ==
    IF s # <<>> /\ s[Len(s)] = 32 THEN TrimEnd(SubSeq(s, 1, Len(s) - 1)) ELSE s

\* String.prototype.trim (the only whitespace of the inputs is the space)
Trim(s) == TrimEnd(TrimStart(s))

\* decimal digits of a non-negative integer, as character codes
RECURSIVE Digits(_)
Digits(n) == IF n < 10 THEN <<48 + n>> ELSE Digits(n \div 10) \o <<48 + (n % 10)>>

\* `${username}:${password}`
CredentialString(username, password) == username \o <<58>> \o password

-----------------------------------------------------------------------------
(* base64: btoa and atob.  A base64 string is the sequence of its sextets  *)
(* (0..63), with 64 for the padding character '='.                         *)

Thrown == <<-2>>

RECURSIVE EncodeBytes(_)
EncodeBytes(b) ==
    IF b = <<>> THEN <<>>
    ELSE LET n  == Len(b)
             b1 == b[1]
             b2 == IF n >= 2 THEN b[2] ELSE 0
             b3 == IF n >= 3 THEN b[3] ELSE 0
             v  == b1 * 65536 + b2 * 256 + b3
         IN  << v \div 262144,
                (v \div 4096) % 64,
                IF n >= 2 THEN (v \div 64) % 64 ELSE 64,
                IF n >= 3 THEN v % 64 ELSE 64 >>
             \o (IF n > 3 THEN EncodeBytes(SubSeq(b, 4, n)) ELSE <<>>)

\* btoa throws InvalidCharacterError on a character outside Latin-1
Btoa(s) ==
    IF \E i \in 1..Len(s) : s[i] > 255 THEN Thrown ELSE EncodeBytes(s)

RECURSIVE DecodeSextets(_)
DecodeSextets(c) ==
    IF c = <<>> THEN <<>>
    ELSE LET s3 == IF c[3] = 64 THEN 0 ELSE c[3]
             s4 == IF c[4] = 64 THEN 0 ELSE c[4]
             v  == c[1] * 262144 + c[2] * 4096 + s3 * 64 + s4
             bytes == << v \div 65536, (v \div 256) % 256, v % 256 >>
             keep  == IF c[3] = 64 THEN 1 ELSE IF c[4] = 64 THEN 2 ELSE 3
         IN  SubSeq(bytes, 1, keep)
             \o (IF Len(c) > 4 THEN DecodeSextets(SubSeq(c, 5, Len(c))) ELSE <<>>)

\* atob throws on a string that is not base64
Atob(c) ==
    IF Len(c) % 4 # 0 \/ \E i \in 1..Len(c) : c[i] \notin 0..64
    THEN Thrown
    ELSE DecodeSextets(c)

\* decoded.split(':')[0]: the prefix before the first ':'
RECURSIVE SplitFirst(_)
SplitFirst(s) ==
    IF s = <<>> \/ Head(s) = 58 THEN <<>> ELSE <<Head(s)>> \o SplitFirst(Tail(s))

-----------------------------------------------------------------------------
(* lib/api: credentials *)

GetStoredCredentials(storage) == storage

\* the value storeCredentials puts under CREDENTIALS_KEY (Thrown: btoa threw, nothing is stored)
StoreCredentials(username, password) == Btoa(CredentialString(username, password))

ClearCredentials_Keep(storage) == storage

ClearCredentials(storage) == Null

GetUsernameFromCredentials(storage) ==
    LET credentials == GetStoredCredentials(storage) IN
    IF Falsy(credentials) THEN Null
    ELSE LET decoded == Atob(credentials) IN
         IF decoded = Thrown THEN Null ELSE SplitFirst(decoded)

-----------------------------------------------------------------------------
(* lib/api: requests *)

NoAuthorization == [scheme |-> "none", credentials |-> <<>>]

Basic(credentials) == [scheme |-> "Basic", credentials |-> credentials]

BuildHeaders_NoAuth(includeAuth, storage) ==
    [contentType |-> "application/json", authorization |-> NoAuthorization]

BuildHeaders(includeAuth, storage) ==
    LET credentials == GetStoredCredentials(storage) IN
    [contentType   |-> "application/json",
     authorization |-> IF includeAuth /\ ~Falsy(credentials)
                       THEN Basic(credentials) ELSE NoAuthorization]

\* postFormData builds its headers inline, without a Content-Type
FormDataHeaders(includeAuth, storage) ==
    LET credentials == GetStoredCredentials(storage) IN
    [contentType   |-> "",
     authorization |-> IF includeAuth /\ ~Falsy(credentials)
                       THEN Basic(credentials) ELSE NoAuthorization]

\* What fetch is called with, and the wrapper and includeAuth it came from.
Request(fn, method, path, includeAuth, headers) ==
    [fn |-> fn, method |-> method, path |-> path, includeAuth |-> includeAuth,
     headers |-> headers]

GetJson(path, includeAuth) ==
    Request("getJson", "GET", path, includeAuth, BuildHeaders(includeAuth, sessionStorage))

PostJson(path, includeAuth) ==
    Request("postJson", "POST", path, includeAuth, BuildHeaders(includeAuth, sessionStorage))

DeleteJson(path, includeAuth) ==
    Request("deleteJson", "DELETE", path, includeAuth, BuildHeaders(includeAuth, sessionStorage))

PostFormData(path, includeAuth) ==
    Request("postFormData", "POST", path, includeAuth, FormDataHeaders(includeAuth, sessionStorage))


-----------------------------------------------------------------------------
(* lib/api: responses.  A response is [status, body]; a body is            *)
(* [kind, message, error]: kind "empty" is the empty text, "text" a text   *)
(* that is not JSON, "null" the JSON null, "object" a JSON object whose    *)
(* message and error fields are strings or Null (absent).                  *)

Body(kind, message, error) == [kind |-> kind, message |-> message, error |-> error]

Response(status, body) == [status |-> status, body |-> body]

\* fetch rejected: there is no response
NetworkFailure == Response(0, Body("failed", Null, Null))

\* response.ok
Ok(response) == response.status \in 200..299

\* `HTTP Error: ${response.status}`
DefaultMessage(status) ==
    <<72, 84, 84, 80, 32, 69, 114, 114, 111, 114, 58, 32>> \o Digits(status)

ApiError(status, message) ==
    [kind |-> "ApiError", status |-> status, message |-> message, value |-> "none"]

ErrorMessage_ErrorFirst(body, default) ==
    IF body.kind # "object" THEN default
    ELSE IF ~Falsy(body.error) THEN body.error
    ELSE IF ~Falsy(body.message) THEN body.message
    ELSE default

\* errorData.message || errorData.error || message, and the catch around response.json()
ErrorMessage(body, default) ==
    IF body.kind # "object" THEN default
    ELSE IF ~Falsy(body.message) THEN body.message
    ELSE IF ~Falsy(body.error) THEN body.error
    ELSE default

HandleResponse(response) ==
    IF ~Ok(response)
    THEN ApiError(response.status,
                  ErrorMessage(response.body, DefaultMessage(response.status)))
    ELSE CASE response.body.kind = "empty"  ->
                  [kind |-> "value", status |-> response.status, message |-> <<>>, value |-> "{}"]
           [] response.body.kind = "text"   ->
                  [kind |-> "SyntaxError", status |-> response.status, message |-> <<>>, value |-> "none"]
           [] OTHER ->
                  [kind |-> "value", status |-> response.status, message |-> <<>>, value |-> "parsed"]

\* await fetch(...) followed by handleResponse: what the caller of getJson,
\* postJson, deleteJson or postFormData gets back (a value) or catches.
ApiCall(outcome) ==
    IF outcome = NetworkFailure
    THEN [kind |-> "TypeError", status |-> 0, message |-> <<>>, value |-> "none"]
    ELSE HandleResponse(outcome)

-----------------------------------------------------------------------------
(* Toast: [type, key, text].  t(key) is the translation of key; a raw      *)
(* message (error.message) has key "" and its text.                        *)

NoToast == [type |-> "none", key |-> "", text |-> <<>>]

T(type, key) == [type |-> type, key |-> key, text |-> <<>>]

Raw(type, text) == [type |-> type, key |-> "", text |-> text]

-----------------------------------------------------------------------------
(* App: the routes *)

PublicPaths == {"/login", "/register"}

ProtectedPaths ==
    {"/dashboard", "/wallets", "/wallets/:id", "/categories", "/reports", "/budget"}

\* "/" and one path that matches no route but "*"
Paths == PublicPaths \cup ProtectedPaths \cup {"/", "/unknown"}

Page(path) == [navigate |-> FALSE, to |-> "", page |-> path]

Navigate(to) == [navigate |-> TRUE, to |-> to, page |-> ""]

\* isLoading is always false (AuthProvider's value)
PrivateRoute(user, children) ==
    IF Falsy(user) THEN Navigate("/login") ELSE children

PublicRoute(user, children) ==
    IF ~Falsy(user) THEN Navigate("/dashboard") ELSE children

\* <Routes>: the element of the route that matches path
RouteElement(path, user) ==
    IF path \in PublicPaths THEN PublicRoute(user, Page(path))
    ELSE IF path \in ProtectedPaths THEN PrivateRoute(user, Page(path))
    ELSE Navigate(IF ~Falsy(user) THEN "/dashboard" ELSE "/login")

\* The path the router settles on: <Navigate replace> is followed until a page renders.
RECURSIVE Settle(_, _, _)
Settle(path, user, fuel) ==
    LET element == RouteElement(path, user) IN
    IF element.navigate /\ fuel > 0 THEN Settle(element.to, user, fuel - 1) ELSE path

Resolve(path, user) == Settle(path, user, 3)

\* the page on screen
Rendered == RouteElement(location, currentUser)


-----------------------------------------------------------------------------
(* Inputs of the auth pages *)

\* What is typed into the login form, <<username, password>>:
\* " "/"p", "abc"/"", "abc"/"p", ":ab"/"p", and "abc" with a password outside
\* Latin-1 (the euro sign).  The usernames are ones the register page accepts.
LoginInputs ==
    { << <<32>>, <<112>> >>, << <<97, 98, 99>>, <<>> >>, << <<97, 98, 99>>, <<112>> >>,
      << <<58, 97, 98>>, <<112>> >>, << <<97, 98, 99>>, <<8364>> >> }

\* what the backend may answer to the login request
LoginOutcomes ==
    { Response(200, Body("object", Null, Null)),
      Response(200, Body("text", Null, Null)),
      Response(401, Body("object", <<109>>, Null)),
      Response(500, Body("empty", Null, Null)),
      NetworkFailure }

-----------------------------------------------------------------------------
(* AuthProvider, LoginPage, Sidebar *)

\* lastEvent of a handler no property speaks of
Other == [name |-> "Other"]

InitAuthPage == [isSubmitting |-> FALSE, toast |-> NoToast]

\* A page's state lives as long as the page stays mounted.
StaysMounted(path, newLocation) == location = path /\ newLocation = path

\* The re-render after a handler: where the router settles, and which pages keep
\* their state.  lp, rp: the state the handler left the login and register page in.
\* A handler that awaits a response while its page is unmounted goes on, but its
\* setState calls no longer show.
Render(target, user, lp, rp, pending) ==
    LET newLocation == Resolve(target, user) IN
    /\ location' = newLocation
    /\ loginPage' = IF StaysMounted("/login", newLocation) THEN lp ELSE InitAuthPage
    /\ loginPending' = IF StaysMounted("/login", newLocation) THEN pending
                       ELSE { [q EXCEPT !.mounted = FALSE] : q \in pending }
    /\ registerPage' = IF StaysMounted("/register", newLocation) THEN rp ELSE InitAuthPage
    /\ registerPending' = IF StaysMounted("/register", newLocation) THEN registerPending
                          ELSE { [q EXCEPT !.mounted = FALSE] : q \in registerPending }

\* LoginPage.handleSubmit up to the await of login()
LoginSubmit(username, password) ==
    /\ Rendered = Page("/login")
    /\ ~loginPage.isSubmitting
    /\ IF Falsy(Trim(username)) \/ Falsy(password)
       THEN /\ loginPage' = [loginPage EXCEPT !.toast = T("error", "errors.requiredField")]
            /\ UNCHANGED loginPending
            /\ sent' = {}
            /\ lastEvent' = Other
       ELSE /\ Cardinality(loginPending) < MaxLoginsInFlight
            /\ loginPage' = [loginPage EXCEPT !.isSubmitting = TRUE]
            /\ sent' = {PostJson("/api/auth/login", FALSE)}
            /\ loginPending' = loginPending \cup
                   {[username |-> username, password |-> password, mounted |-> TRUE]}
            /\ lastEvent' = Other
    /\ UNCHANGED <<sessionStorage, currentUser, location, registerPage, registerPending,
                   registerTimer, importPending, lastLogin, afterLogout>>

\* The toast LoginPage.handleSubmit shows for what login() returned or threw
LoginToast(returnedTrue, result) ==
    IF returnedTrue THEN T("success", "common.success")
    ELSE IF result.kind = "ApiError"
         THEN IF result.status = 401 THEN T("error", "errors.unauthorized")
              ELSE Raw("error", result.message)
         ELSE T("error", "errors.generic")

\* AuthProvider.login from the response on, and the rest of LoginPage.handleSubmit
LoginResponse(q, outcome) ==
    LET result == ApiCall(outcome)
        stored == StoreCredentials(q.username, q.password)
        \* login() returns true unless postJson or storeCredentials threw
        returnedTrue == result.kind = "value" /\ stored # Thrown
        user == IF returnedTrue THEN q.username ELSE Null
        lp == IF q.mounted
              THEN [isSubmitting |-> FALSE, toast |-> LoginToast(returnedTrue, result)]
              ELSE loginPage
    IN
    /\ q \in loginPending
    /\ outcome \in LoginOutcomes
    /\ sessionStorage' = IF returnedTrue THEN stored ELSE ClearCredentials(sessionStorage)
    /\ currentUser' = user
    /\ Render(IF returnedTrue THEN "/dashboard" ELSE location, user,
              lp, registerPage, loginPending \ {q})
    /\ lastLogin' = IF returnedTrue THEN <<q.username, q.password>> ELSE lastLogin
    /\ afterLogout' = IF returnedTrue THEN FALSE ELSE afterLogout
    /\ lastEvent' = [name |-> "LoginResponse", result |-> result,
                     returnedTrue |-> returnedTrue, mounted |-> q.mounted]
    /\ UNCHANGED <<registerTimer, importPending>>
    /\ sent' = {}

Logout_KeepsCredentials ==
    /\ ~Rendered.navigate /\ Rendered.page \in ProtectedPaths
    /\ currentUser' = Null
    /\ Render("/login", Null, loginPage, registerPage, loginPending)
    /\ afterLogout' = TRUE
    /\ lastEvent' = [name |-> "Logout"]
    /\ UNCHANGED <<sessionStorage, registerTimer, importPending, lastLogin>>
    /\ sent' = {}

\* Sidebar.handleLogout: logout(), then navigate('/login')
Logout ==
    /\ ~Rendered.navigate /\ Rendered.page \in ProtectedPaths
    /\ sessionStorage' = ClearCredentials(sessionStorage)
    /\ currentUser' = Null
    /\ Render("/login", Null, loginPage, registerPage, loginPending)
    /\ afterLogout' = TRUE
    /\ lastEvent' = [name |-> "Logout"]
    /\ UNCHANGED <<registerTimer, importPending, lastLogin>>
    /\ sent' = {}

\* A link is followed, or the history is walked, to path.
GoTo(path) ==
    /\ path \in Paths
    /\ Resolve(path, currentUser) # location
    /\ Render(path, currentUser, loginPage, registerPage, loginPending)
    /\ lastEvent' = Other
    /\ UNCHANGED <<sessionStorage, currentUser, registerTimer,
                   importPending, lastLogin, afterLogout>>
    /\ sent' = {}

\* The document is loaded at path: sessionStorage survives, the script's state does
\* not, and AuthProvider initialises currentUser from the stored credentials.
Reload(path) ==
    LET user == GetUsernameFromCredentials(sessionStorage) IN
    /\ path \in Paths
    /\ currentUser' = user
    /\ location' = Resolve(path, user)
    /\ loginPage' = InitAuthPage
    /\ registerPage' = InitAuthPage
    /\ loginPending' = {}
    /\ registerPending' = {}
    /\ registerTimer' = FALSE
    /\ importPending' = FALSE
    /\ lastEvent' = Other
    /\ UNCHANGED <<sessionStorage, lastLogin, afterLogout>>
    /\ sent' = {}


-----------------------------------------------------------------------------
(* RegisterPage *)

\* /^[^\s@]+@[^\s@]+\.[^\s@]+$/ : one '@', no whitespace, a non-empty local part,
\* and after the '@' a '.' with at least one character on either side.
IsValidEmail(email) ==
    /\ \A i \in 1..Len(email) : email[i] # 32
    /\ \E a \in 1..Len(email) :
          /\ email[a] = 64
          /\ \A i \in 1..Len(email) : email[i] = 64 => i = a
          /\ a > 1
          /\ \E d \in (a + 2)..(Len(email) - 1) : email[d] = 46

\* The error the validations of RegisterPage.handleSubmit show, or NoToast when all pass
RegisterValidation(username, email, password, confirmPassword) ==
    IF Falsy(Trim(username)) THEN T("error", "errors.requiredField")
    ELSE IF Len(username) < 3 THEN T("error", "errors.minLength")
    ELSE IF Falsy(Trim(email)) THEN T("error", "errors.requiredField")
    ELSE IF ~IsValidEmail(email) THEN T("error", "errors.invalidEmail")
    ELSE IF Falsy(password) THEN T("error", "errors.requiredField")
    ELSE IF Len(password) < 6 THEN T("error", "errors.minLength")
    ELSE IF password # confirmPassword THEN T("error", "errors.passwordMismatch")
    ELSE NoToast

\* What is typed into the register form, <<username, email, password, confirmation>>:
\* one form for each validation, one that passes them all, and one whose username
\* has three characters only with the space that trim() removes.
RegisterForms ==
    { << <<32, 32, 32>>, <<97, 64, 98, 46, 99>>, <<49, 50, 51, 52, 53, 54>>, <<49, 50, 51, 52, 53, 54>> >>,
      << <<97, 98>>,     <<97, 64, 98, 46, 99>>, <<49, 50, 51, 52, 53, 54>>, <<49, 50, 51, 52, 53, 54>> >>,
      << <<97, 98, 99>>, <<>>,                   <<49, 50, 51, 52, 53, 54>>, <<49, 50, 51, 52, 53, 54>> >>,
      << <<97, 98, 99>>, <<97, 64, 98>>,         <<49, 50, 51, 52, 53, 54>>, <<49, 50, 51, 52, 53, 54>> >>,
      << <<97, 98, 99>>, <<97, 64, 98, 46, 99>>, <<>>,                       <<>> >>,
      << <<97, 98, 99>>, <<97, 64, 98, 46, 99>>, <<49, 50, 51, 52, 53>>,     <<49, 50, 51, 52, 53>> >>,
      << <<97, 98, 99>>, <<97, 64, 98, 46, 99>>, <<49, 50, 51, 52, 53, 54>>, <<49, 50, 51, 52, 53, 55>> >>,
      << <<97, 98, 99>>, <<97, 64, 98, 46, 99>>, <<49, 50, 51, 52, 53, 54>>, <<49, 50, 51, 52, 53, 54>> >>,
      << <<32, 97, 98>>, <<97, 64, 98, 46, 99>>, <<49, 50, 51, 52, 53, 54>>, <<49, 50, 51, 52, 53, 54>> >> }

RegisterOutcomes ==
    { Response(200, Body("object", Null, Null)),
      Response(409, Body("object", <<109>>, Null)),
      Response(500, Body("object", Null, <<101>>)),
      NetworkFailure }

\* RegisterPage.handleSubmit up to the await of postJson
RegisterSubmit(username, email, password, confirmPassword) ==
    LET error == RegisterValidation(username, email, password, confirmPassword)
        registerData == [username |-> Trim(username), email |-> Trim(email),
                         password |-> password]
    IN
    /\ Rendered = Page("/register")
    /\ ~registerPage.isSubmitting
    /\ IF error # NoToast
       THEN /\ registerPage' = [registerPage EXCEPT !.toast = error]
            /\ UNCHANGED registerPending
            /\ sent' = {}
            /\ lastEvent' = [name |-> "RegisterSubmit", confirmPassword |-> confirmPassword,
                             body |-> <<>>]
       ELSE /\ Cardinality(registerPending) < MaxRegistersInFlight
            /\ registerPage' = [registerPage EXCEPT !.isSubmitting = TRUE]
            /\ sent' = {PostJson("/api/auth/register", FALSE)}
            /\ registerPending' = registerPending \cup
                   {[mounted |-> TRUE]}
            /\ lastEvent' = [name |-> "RegisterSubmit", confirmPassword |-> confirmPassword,
                             body |-> <<registerData>>]
    /\ UNCHANGED <<sessionStorage, currentUser, location, loginPage, loginPending,
                   registerTimer, importPending, lastLogin, afterLogout>>

RegisterToast(result) ==
    IF result.kind = "value" THEN T("success", "common.success")
    ELSE IF result.kind = "ApiError"
         THEN IF result.status = 409 THEN T("error", "errors.alreadyExists")
              ELSE Raw("error", result.message)
         ELSE T("error", "errors.generic")

\* RegisterPage.handleSubmit from the response on
RegisterResponse(q, outcome) ==
    LET result == ApiCall(outcome) IN
    /\ q \in registerPending
    /\ outcome \in RegisterOutcomes
    /\ registerPending' = registerPending \ {q}
    /\ registerPage' = IF q.mounted
                       THEN [isSubmitting |-> FALSE, toast |-> RegisterToast(result)]
                       ELSE registerPage
    /\ registerTimer' = (registerTimer \/ result.kind = "value")
    /\ lastEvent' = Other
    /\ UNCHANGED <<sessionStorage, currentUser, location, loginPage, loginPending,
                   importPending, lastLogin, afterLogout>>
    /\ sent' = {}

\* the timeout of a successful registration: navigate('/login')
RegisterTimerFires ==
    /\ registerTimer
    /\ registerTimer' = FALSE
    /\ Render("/login", currentUser, loginPage, registerPage, loginPending)
    /\ lastEvent' = Other
    /\ sent' = {}
    /\ UNCHANGED <<sessionStorage, currentUser, importPending, lastLogin, afterLogout>>

-----------------------------------------------------------------------------
(* Requests of the protected pages *)

Wrappers == {"getJson", "postJson", "deleteJson"}

\* A handler of the page on screen calls a wrapper with the default includeAuth
\* (fetchWallets, handleCreateWallet, handleDeleteTransaction, ...).
PageCall(fn) ==
    /\ ~Rendered.navigate /\ Rendered.page \in ProtectedPaths
    /\ fn \in Wrappers
    /\ sent' = CASE fn = "getJson"    -> {GetJson("/api/wallets", TRUE)}
                  [] fn = "postJson"   -> {PostJson("/api/wallets", TRUE)}
                  [] fn = "deleteJson" -> {DeleteJson("/api/transactions/:id", TRUE)}
    /\ lastEvent' = Other
    /\ UNCHANGED <<sessionStorage, currentUser, location, loginPage, loginPending,
                   registerPage, registerPending, registerTimer, importPending,
                   lastLogin, afterLogout>>

ImportOutcomes ==
    { Response(200, Body("object", Null, Null)), Response(500, Body("empty", Null, Null)) }

\* WalletDetailPage.handleCsvImport up to the await of postFormData
CsvImport ==
    /\ Rendered = Page("/wallets/:id")
    /\ ~importPending
    /\ importPending' = TRUE
    /\ sent' = {PostFormData("/api/wallets/:id/import", TRUE)}
    /\ lastEvent' = Other
    /\ UNCHANGED <<sessionStorage, currentUser, location, loginPage, loginPending,
                   registerPage, registerPending, registerTimer, lastLogin, afterLogout>>

\* handleCsvImport from the response on: after a successful import it calls
\* fetchTransactions, whether or not the page is still on screen.
CsvImportResponse(outcome) ==
    LET result == ApiCall(outcome) IN
    /\ importPending
    /\ outcome \in ImportOutcomes
    /\ importPending' = FALSE
    /\ sent' = IF result.kind = "value"
               THEN {GetJson("/api/wallets/:id/transactions", TRUE)}
               ELSE {}
    /\ lastEvent' = Other
    /\ UNCHANGED <<sessionStorage, currentUser, location, loginPage, loginPending,
                   registerPage, registerPending, registerTimer, lastLogin, afterLogout>>

-----------------------------------------------------------------------------
(* WalletsPage *)

Wallet(id, name, currency) == [id |-> id, name |-> name, currency |-> currency]

\* Wallets the backend holds before this page creates any: "Main" and "Trip".
StoredWallets ==
    << Wallet(1, <<77, 97, 105, 110>>, "EUR"), Wallet(2, <<84, 114, 105, 112>>, "USD") >>

\* What GET /api/wallets may answer with (wallets are also created and deleted
\* from other sessions of the same user).
WalletLists == { SubSeq(StoredWallets, 1, n) : n \in 0..Len(StoredWallets) }

\* What is typed into the name field: "", " " and " w"
WalletNames == { <<>>, <<32>>, <<32, 119>> }

Currencies == {"EUR", "USD"}

WalletsOutcomes ==
    { Response(200, Body("object", Null, Null)),
      Response(500, Body("object", <<109>>, Null)),
      NetworkFailure }

InitWalletsPage ==
    [mounted |-> FALSE, isLoading |-> TRUE, showModal |-> FALSE, newWalletName |-> <<>>,
     newWalletCurrency |-> "EUR", isSubmitting |-> FALSE, toast |-> NoToast]

ErrorToast_Silent(result, key) == NoToast

\* the toast of a catch block: error.message of an ApiError, else t(key)
ErrorToast(result, key) ==
    IF result.kind = "ApiError" THEN Raw("error", result.message) ELSE T("error", key)

\* The page is on screen with its list (not the loading spinner).
WalletsShown == Rendered = Page("/wallets") /\ walletsPage.mounted /\ ~walletsPage.isLoading

\* fetchWallets up to the await of getJson
FetchWallets ==
    /\ walletsFetching' = walletsFetching + 1
    /\ sent' = {GetJson("/api/wallets", TRUE)}

\* useEffect(() => { fetchWallets() }, [fetchWallets]) after the first render
WalletsMount ==
    /\ Rendered = Page("/wallets")
    /\ ~walletsPage.mounted
    /\ walletsPage' = [walletsPage EXCEPT !.mounted = TRUE]
    /\ FetchWallets
    /\ lastEvent' = Other
    /\ UNCHANGED <<aroundWallets, wallets, walletsCreating, walletsCreated>>

\* LanguageSelector.changeLanguage: useTranslation hands the page a new t, so
\* fetchWallets (useCallback over [showToast, t]) is a new function and the effect
\* over [fetchWallets] runs again.
ChangeLanguage ==
    /\ Rendered = Page("/wallets")
    /\ walletsPage.mounted
    /\ walletsFetching < MaxWalletFetchesInFlight
    /\ FetchWallets
    /\ lastEvent' = Other
    /\ UNCHANGED <<aroundWallets, wallets, walletsPage, walletsCreating, walletsCreated>>

\* fetchWallets from the response on
FetchWalletsResponse(outcome, data) ==
    LET result == ApiCall(outcome) IN
    /\ walletsFetching > 0
    /\ walletsFetching' = walletsFetching - 1
    /\ wallets' = IF result.kind = "value" THEN data ELSE wallets
    /\ walletsPage' =
         [walletsPage EXCEPT
            !.toast = IF result.kind = "value" THEN @ ELSE ErrorToast(result, "wallets.loadError"),
            !.isLoading = FALSE]
    /\ sent' = {}
    /\ lastEvent' = Other
    /\ UNCHANGED <<aroundWallets, walletsCreating, walletsCreated>>

\* the buttons that open the modal, and the overlay and Cancel that close it
\* (Cancel is disabled while submitting, the overlay is not)
SetShowModal(show) ==
    /\ WalletsShown
    /\ walletsPage.showModal # show
    /\ walletsPage' = [walletsPage EXCEPT !.showModal = show]
    /\ sent' = {}
    /\ lastEvent' = Other
    /\ UNCHANGED <<aroundWallets, wallets, walletsFetching, walletsCreating, walletsCreated>>

\* the name input and the currency select (disabled while submitting)
EditWalletForm(name, currency) ==
    /\ WalletsShown
    /\ walletsPage.showModal /\ ~walletsPage.isSubmitting
    /\ walletsPage' = [walletsPage EXCEPT !.newWalletName = name, !.newWalletCurrency = currency]
    /\ sent' = {}
    /\ lastEvent' = Other
    /\ UNCHANGED <<aroundWallets, wallets, walletsFetching, walletsCreating, walletsCreated>>

\* handleCreateWallet up to the await of postJson
CreateWalletSubmit ==
    /\ WalletsShown
    /\ walletsPage.showModal /\ ~walletsPage.isSubmitting
    /\ walletsCreated < MaxWalletsCreated
    /\ IF Falsy(Trim(walletsPage.newWalletName))
       THEN /\ walletsPage' = [walletsPage EXCEPT !.toast = T("error", "wallets.nameRequired")]
            /\ sent' = {}
            /\ UNCHANGED walletsCreating
       ELSE /\ walletsPage' = [walletsPage EXCEPT !.isSubmitting = TRUE]
            /\ walletsCreating' =
                 << [wallets  |-> wallets,
                     name     |-> Trim(walletsPage.newWalletName),
                     currency |-> walletsPage.newWalletCurrency] >>
            /\ sent' = {PostJson("/api/wallets", TRUE)}
    /\ lastEvent' = [name |-> "CreateWalletSubmit", walletName |-> walletsPage.newWalletName]
    /\ UNCHANGED <<aroundWallets, wallets, walletsFetching, walletsCreated>>

\* handleCreateWallet from the response on; the backend answers a success with
\* the wallet it created.
CreateWalletResponse(outcome) ==
    LET q == walletsCreating[1]
        result == ApiCall(outcome)
        newWallet == Wallet(Len(StoredWallets) + walletsCreated + 1, q.name, q.currency)
    IN
    /\ walletsCreating # <<>>
    /\ walletsCreating' = <<>>
    /\ IF result.kind = "value"
       THEN /\ wallets' = Append(q.wallets, newWallet)
            /\ walletsCreated' = walletsCreated + 1
            /\ walletsPage' =
                 [walletsPage EXCEPT !.showModal = FALSE, !.newWalletName = <<>>,
                                     !.newWalletCurrency = "EUR",
                                     !.toast = T("success", "wallets.createSuccess"),
                                     !.isSubmitting = FALSE]
       ELSE /\ walletsPage' =
                 [walletsPage EXCEPT !.toast = ErrorToast(result, "wallets.createError"),
                                     !.isSubmitting = FALSE]
            /\ UNCHANGED <<wallets, walletsCreated>>
    /\ sent' = {}
    /\ lastEvent' = [name |-> "CreateWalletResponse", result |-> result, newWallet |-> newWallet]
    /\ UNCHANGED <<aroundWallets, walletsFetching>>

-----------------------------------------------------------------------------
(* lib/api: handleResponse applied to the responses fetch may resolve with *)

Statuses == {200, 201, 204, 299, 300, 304, 400, 401, 404, 500}

\* "" (a field that is present and empty), "m" and "e"
Messages == { Null, <<>>, <<109>> }

Errors == { Null, <<>>, <<101>> }

Bodies ==
    { Body(kind, Null, Null) : kind \in {"empty", "text", "null"} }
      \cup { Body("object", m, e) : m \in Messages, e \in Errors }

Responses == { Response(status, body) : status \in Statuses, body \in Bodies }

Pending == [kind |-> "pending", status |-> 0, message |-> <<>>, value |-> "none"]

\* await fetch(url, ...) resolves
Fetch(r) ==
    /\ apiResponse' = r
    /\ apiResult' = Pending
    /\ UNCHANGED <<authVars, walletsVars, detailVars, moreVars, sent, lastEvent>>

\* return handleResponse<T>(response)
Handle ==
    /\ apiResult = Pending
    /\ apiResult' = HandleResponse(apiResponse)
    /\ UNCHANGED <<authVars, walletsVars, detailVars, moreVars, sent, lastEvent, apiResponse>>

-----------------------------------------------------------------------------
(* Numbers.  A number is [nan, milli]: NaN, or the value milli / 1000.     *)
(* Amounts of the model have at most three decimals.                       *)

NaN == [nan |-> TRUE, milli |-> 0]

Num(milli) == [nan |-> FALSE, milli |-> milli]

IsDigit(c) == c \in 48..57

\* the index after the run of digits of s that starts at index i
RECURSIVE DigitsEnd(_, _)
DigitsEnd(s, i) == IF i <= Len(s) /\ IsDigit(s[i]) THEN DigitsEnd(s, i + 1) ELSE i

RECURSIVE DigitsValue(_)
DigitsValue(d) ==
    IF d = <<>> THEN 0
    ELSE 10 * DigitsValue(SubSeq(d, 1, Len(d) - 1)) + (d[Len(d)] - 48)

\* the decimal syntax parseFloat and <input type="number"> read: where the sign,
\* the integer digits and the fraction digits of s are
Decimal(s, signs) ==
    LET signed   == s # <<>> /\ s[1] \in signs
        start    == IF signed THEN 2 ELSE 1
        intEnd   == DigitsEnd(s, start)
        hasPoint == intEnd <= Len(s) /\ s[intEnd] = 46
        fracEnd  == IF hasPoint THEN DigitsEnd(s, intEnd + 1) ELSE intEnd
    IN [negative   |-> signed /\ s[1] = 45,
        intDigits  |-> SubSeq(s, start, intEnd - 1),
        fracDigits |-> IF hasPoint THEN SubSeq(s, intEnd + 1, fracEnd - 1) ELSE <<>>,
        hasPoint   |-> hasPoint,
        rest       |-> SubSeq(s, fracEnd, Len(s))]

\* parseFloat: leading whitespace skipped, an optional sign, digits with an
\* optional fraction; whatever follows is ignored; NaN when there is no digit.
ParseFloat(string) ==
    LET d == Decimal(TrimStart(string), {43, 45})
        magnitude == 1000 * DigitsValue(d.intDigits)
                       + DigitsValue(SubSeq(d.fracDigits \o <<48, 48, 48>>, 1, 3))
    IN IF d.intDigits = <<>> /\ d.fracDigits = <<>> THEN NaN
       ELSE Num(IF d.negative THEN -magnitude ELSE magnitude)

RECURSIVE StripZeros(_)
StripZeros(d) == IF d # <<>> /\ d[Len(d)] = 48 THEN StripZeros(SubSeq(d, 1, Len(d) - 1)) ELSE d

\* Number.prototype.toString of a number with at most three decimals
NumberToString(milli) ==
    LET a    == IF milli < 0 THEN -milli ELSE milli
        frac == a % 1000
        f3   == <<48 + (frac \div 100), 48 + ((frac \div 10) % 10), 48 + (frac % 10)>>
    IN (IF milli < 0 THEN <<45>> ELSE <<>>) \o Digits(a \div 1000)
         \o (IF frac = 0 THEN <<>> ELSE <<46>> \o StripZeros(f3))

\* value of <input type="number">: the text when it is a valid floating-point
\* number (no '+', no whitespace, digits on both sides of a point), else ''
NumberInputValue(text) ==
    LET d == Decimal(text, {45}) IN
    IF /\ d.rest = <<>>
       /\ d.intDigits # <<>> \/ d.hasPoint
       /\ d.hasPoint => d.fracDigits # <<>>
    THEN text ELSE <<>>

\* min="0.01" and step="0.01" of the amount inputs, in thousandths
AmountMin == 10

AmountStep == 10

\* Constraint validation of an amount input when its form is submitted: the
\* browser does not dispatch the submit event when the value is missing (if
\* required), under min, or off the steps from min.
AmountInvalid_Never(value, required) == FALSE

AmountInvalid(value, required) ==
    IF value = <<>> THEN required
    ELSE \/ ParseFloat(value).milli < AmountMin
         \/ (ParseFloat(value).milli - AmountMin) % AmountStep # 0

\* String.prototype.toLowerCase
ToLowerCase(s) == [i \in 1..Len(s) |-> IF s[i] \in 65..90 THEN s[i] + 32 ELSE s[i]]

-----------------------------------------------------------------------------
(* WalletDetailPage: data *)

Transaction(id, type, amount) == [id |-> id, type |-> type, amount |-> amount]

\* The transactions the backend holds before this page creates any.
StoredTransactions == << Transaction(1, "CREDIT", 5000), Transaction(2, "DEBIT", 2000) >>

\* what GET /api/wallets/:id/transactions may answer with
TransactionLists == { <<>>, StoredTransactions }

Subcategory(id, name) == [id |-> id, name |-> name]

Category(id, name, type, subcategories) ==
    [id |-> id, name |-> name, type |-> type, subcategories |-> subcategories]

\* "Food" with "Fruit" and "Meat", "Rent" without subcategories, "Salary" with "Bonus"
Food ==
    Category("c1", <<70, 111, 111, 100>>, "DEBIT",
             << Subcategory("s1", <<70, 114, 117, 105, 116>>),
                Subcategory("s2", <<77, 101, 97, 116>>) >>)

Rent == Category("c2", <<82, 101, 110, 116>>, "DEBIT", <<>>)

Salary ==
    Category("c3", <<83, 97, 108, 97, 114, 121>>, "CREDIT",
             << Subcategory("s3", <<66, 111, 110, 117, 115>>) >>)

\* what GET /api/categories may answer with
CategoryLists == { <<Food, Rent>>, <<Rent, Salary, Food>> }

Types == {"DEBIT", "CREDIT"}

Today == "2026-01-01"

Draft(type, amount, category, subcategory) ==
    [type |-> type, amount |-> amount, category |-> category, subcategory |-> subcategory,
     date |-> Today]

\* What POST /api/voice/classify may answer with: 12.5 of "food" / "meat", and 0 of
\* a category the user does not have.
Drafts ==
    { Draft("DEBIT", 12500, <<102, 111, 111, 100>>, <<109, 101, 97, 116>>),
      Draft("CREDIT", 0, <<120>>, Null) }

\* What is typed into an amount field: "", "abc", "0", "-5" and "12.5"
AmountTexts == { <<>>, <<97, 98, 99>>, <<48>>, <<45, 53>>, <<49, 50, 46, 53>> }

\* "12.5" alone
PositiveAmountTexts == { <<49, 50, 46, 53>> }

\* What is typed into the quick-add text: "", " " and "x"
QuickAddTexts == { <<>>, <<32>>, <<120>> }

\* what the fetches of the mount effect may be answered with
DetailOutcomes ==
    { Response(200, Body("object", Null, Null)),
      Response(404, Body("object", <<109>>, Null)),
      Response(500, Body("object", <<109>>, Null)) }

\* what the requests the user starts may be answered with
RequestOutcomes ==
    { Response(200, Body("object", Null, Null)),
      Response(500, Body("object", <<109>>, Null)) }

SubcategoryIds == {"s1", "s2", "s3"}

NoWallet == [loaded |-> FALSE, balance |-> 0]

\* the wallet GET /api/wallets/:id answers with: a balance of 3
StoredWallet == [loaded |-> TRUE, balance |-> 3000]

TransactionsPath == "/api/wallets/:id/transactions"

ClassifyPath_Transactions == TransactionsPath

ClassifyPath == "/api/voice/classify"

-----------------------------------------------------------------------------
(* WalletDetailPage: what it computes from its state *)

\* categories.filter(cat => cat.type === type)
OfType(cats, type) == SelectSeq(cats, LAMBDA cat : cat.type = type)

\* categories.find(cat => cat.id === id): <<>> (undefined) or <<cat>>
FindById(items, id) ==
    LET found == SelectSeq(items, LAMBDA item : item.id = id) IN
    IF found = <<>> THEN <<>> ELSE <<found[1]>>

Ids(items) == { items[i].id : i \in 1..Len(items) }

\* the first auto-select effect: the first category of the type, or ''
FirstCategoryId(cats, type) ==
    IF OfType(cats, type) # <<>> THEN OfType(cats, type)[1].id ELSE ""

\* the second auto-select effect: the first subcategory of the category, or ''
FirstSubcategoryId(cats, categoryId) ==
    LET category == FindById(cats, categoryId) IN
    IF category # <<>> /\ category[1].subcategories # <<>>
    THEN category[1].subcategories[1].id ELSE ""

AutoSelect_NoEffects(before, after, cats, categoriesChanged) == after

\* The two auto-select effects after a render in which the form went from before
\* to after: each runs when one of its dependencies changed, reads the values of
\* that render, and the render its setState calls cause runs the second once more
\* when the first changed newCategoryId.
AutoSelect(before, after, cats, categoriesChanged) ==
    LET c1 == IF after.newType # before.newType \/ categoriesChanged
              THEN FirstCategoryId(cats, after.newType) ELSE after.newCategoryId
        s1 == IF after.newCategoryId # before.newCategoryId \/ categoriesChanged
              THEN FirstSubcategoryId(cats, after.newCategoryId) ELSE after.newSubcategoryId
        s2 == IF c1 # after.newCategoryId THEN FirstSubcategoryId(cats, c1) ELSE s1
    IN [after EXCEPT !.newCategoryId = c1, !.newSubcategoryId = s2]

RECURSIVE SumAmounts(_)
SumAmounts(ts) == IF ts = <<>> THEN 0 ELSE ts[1].amount + SumAmounts(Tail(ts))

\* the balance the page renders: credits minus debits of the displayed list
DerivedBalance(ts) ==
    SumAmounts(SelectSeq(ts, LAMBDA t : t.type = "CREDIT"))
      - SumAmounts(SelectSeq(ts, LAMBDA t : t.type = "DEBIT"))

\* transactions.filter(t => t.id !== transactionId)
WithoutId(ts, transactionId) == SelectSeq(ts, LAMBDA t : t.id # transactionId)

\* The earlier version of the page keeps wallet.balance in step with its edits:
\* if (wallet) setWallet({...wallet, balance: wallet.balance + balanceChange}),
\* where w is the wallet of the handler's closure and current the wallet state.
BalanceAfterCreate(current, w, type, amount) ==
    IF w.loaded
    THEN [w EXCEPT !.balance = @ + (IF type = "CREDIT" THEN amount ELSE -amount)]
    ELSE current

\* if (deletedTransaction && wallet) setWallet({...wallet, balance: ...}), where ts
\* and w are the transactions and the wallet of the handler's closure
BalanceAfterDelete(current, w, ts, transactionId) ==
    LET deletedTransaction == FindById(ts, transactionId) IN
    IF deletedTransaction # <<>> /\ w.loaded
    THEN [w EXCEPT !.balance = @ + (IF deletedTransaction[1].type = "CREDIT"
                                    THEN -deletedTransaction[1].amount
                                    ELSE deletedTransaction[1].amount)]
    ELSE current

-----------------------------------------------------------------------------
(* TransactionConfirmationModal *)

NoConfirmation ==
    [mounted |-> FALSE, type |-> "DEBIT", amount |-> <<>>, date |-> "",
     categoryId |-> "", subcategoryId |-> ""]

FindInitialCategoryId(cats, type, draftCategoryName) ==
    LET filteredCategories == OfType(cats, type)
        matching == SelectSeq(filteredCategories,
                              LAMBDA cat : ToLowerCase(cat.name) = ToLowerCase(draftCategoryName))
    IN IF matching # <<>> THEN matching[1].id
       ELSE IF filteredCategories # <<>> THEN filteredCategories[1].id
       ELSE ""

FindInitialSubcategoryId(cats, categoryId, draftSubcategoryName) ==
    LET category == FindById(cats, categoryId) IN
    IF categoryId = "" THEN ""
    ELSE IF category = <<>> \/ category[1].subcategories = <<>> THEN ""
    ELSE LET matching ==
                 IF Falsy(draftSubcategoryName) THEN <<>>
                 ELSE SelectSeq(category[1].subcategories,
                                LAMBDA sub : ToLowerCase(sub.name) = ToLowerCase(draftSubcategoryName))
         IN IF matching # <<>> THEN matching[1].id
            ELSE category[1].subcategories[1].id

\* the useState initial values of the modal, from the draft and the categories
\* it is first rendered with
MountConfirmation(draft, cats) ==
    LET initialCategoryId == FindInitialCategoryId(cats, draft.type, draft.category) IN
    [mounted       |-> TRUE,
     type          |-> draft.type,
     amount        |-> NumberInputValue(NumberToString(draft.amount)),
     date          |-> draft.date,
     categoryId    |-> initialCategoryId,
     subcategoryId |-> FindInitialSubcategoryId(cats, initialCategoryId, draft.subcategory)]

HandleTypeChange_KeepsSubcategory(modal, cats, newType) ==
    [modal EXCEPT !.type = newType, !.categoryId = FirstCategoryId(cats, newType)]

\* handleTypeChange
HandleTypeChange(modal, cats, newType) ==
    LET newFilteredCategories == OfType(cats, newType) IN
    IF newFilteredCategories # <<>>
    THEN LET newCategoryId == newFilteredCategories[1].id
             newCategory   == FindById(cats, newCategoryId)
         IN [modal EXCEPT
               !.type = newType,
               !.categoryId = newCategoryId,
               !.subcategoryId =
                   IF newCategory # <<>> /\ newCategory[1].subcategories # <<>>
                   THEN newCategory[1].subcategories[1].id ELSE ""]
    ELSE [modal EXCEPT !.type = newType, !.categoryId = "", !.subcategoryId = ""]

\* handleCategoryChange
HandleCategoryChange(modal, cats, newCategoryId) ==
    LET newCategory == FindById(cats, newCategoryId) IN
    [modal EXCEPT
       !.categoryId = newCategoryId,
       !.subcategoryId =
           IF newCategory # <<>> /\ newCategory[1].subcategories # <<>>
           THEN newCategory[1].subcategories[1].id ELSE ""]

-----------------------------------------------------------------------------
(* Dropdown *)

\* the options the forms give their Dropdowns: a value per item, none disabled
DropdownOptions(items) ==
    [i \in 1..Len(items) |-> [value |-> items[i].id, disabled |-> FALSE]]

\* options={filteredCategories.map(...)}
CategoryOptions(cats, type) == DropdownOptions(OfType(cats, type))

\* options={selectedCategory ? availableSubcategories.map(...) : []}
SubcategoryOptions(cats, categoryId) ==
    LET selectedCategory == FindById(cats, categoryId) IN
    IF selectedCategory # <<>> THEN DropdownOptions(selectedCategory[1].subcategories)
    ELSE <<>>

\* options.find(opt => opt.value === value)
SelectedOption(options, value) == SelectSeq(options, LAMBDA opt : opt.value = value)

\* handleSelect, for a click on an item of the list and for Enter on the
\* highlighted one: the value onChange is called with, if it is called
HandleSelect(option) == IF ~option.disabled THEN <<option.value>> ELSE <<>>

\* the values a Dropdown with these options can call onChange with
Selectable(options) ==
    { v \in { options[i].value : i \in DOMAIN options } :
        \E i \in DOMAIN options : HandleSelect(options[i]) = <<v>> }

\* onChange of a Dropdown of the forms
OnChange(dropdown, value) == [name |-> "onChange", dropdown |-> dropdown, value |-> value]

-----------------------------------------------------------------------------
(* WalletDetailPage: state and handlers *)

InitDetailPage ==
    [mounted |-> FALSE, isLoading |-> TRUE, isLoadingCategories |-> FALSE,
     showModal |-> FALSE, isSubmitting |-> FALSE,
     quickAddText |-> <<>>, isParsingText |-> FALSE,
     transactionDraft |-> <<>>, showConfirmationModal |-> FALSE,
     isConfirmingTransaction |-> FALSE]

\* showToast: the toast a handler shows is recorded with the event
Showed(name, toast) == [name |-> name, toast |-> toast]

InitFilters ==
    [showFilters |-> FALSE, filterType |-> "", filterFromDate |-> "", filterToDate |-> ""]

InitForm ==
    [newType |-> "DEBIT", newCategoryId |-> "", newSubcategoryId |-> "",
     newAmount |-> <<>>, newDate |-> Today]

\* A request of the page awaiting its response: what was asked, and for the
\* handlers that use them afterwards the transactions and wallet of their closure.
NoBody == [type |-> "", amount |-> 0]

DetailRequest(kind, id, ts, w, body) ==
    [kind |-> kind, id |-> id, transactions |-> ts, wallet |-> w, body |-> body]

FetchRequest(kind) == DetailRequest(kind, 0, <<>>, NoWallet, NoBody)

\* the page is on screen with its content (not the loading line)
DetailShown ==
    Rendered = Page("/wallets/:id") /\ detailPage.mounted /\ ~detailPage.isLoading

\* {showConfirmationModal && transactionDraft && <TransactionConfirmationModal .../>}
ConfirmationRendered(page) == page.showConfirmationModal /\ page.transactionDraft # <<>>

\* The modal's state after a render of the page: kept while the modal stays
\* rendered, initialised when it appears, gone when it disappears.
RenderConfirmation(page, cats, modal) ==
    IF ~ConfirmationRendered(page) THEN NoConfirmation
    ELSE IF modal.mounted THEN modal
    ELSE MountConfirmation(page.transactionDraft[1], cats)

\* requests the user started (not the fetches of the mount effect)
UserRequests == { q \in detailPending : q.kind \in {"create", "delete", "classify", "confirm"} }

\* error instanceof ApiError && (error.status === 403 || error.status === 404)
FetchDenied(result) == result.kind = "ApiError" /\ result.status \in {403, 404}

\* navigate('/dashboard') of fetchWallet and fetchTransactions: the page is
\* unmounted, and nothing a handler of it sets afterwards shows.
LeaveDetail ==
    /\ location' = Resolve("/dashboard", currentUser)
    /\ detailPage' = [InitDetailPage EXCEPT !.isLoading = FALSE]
    /\ form' = InitForm
    /\ confirmation' = NoConfirmation
    /\ transactions' = <<>>
    /\ wallet' = NoWallet
    /\ categories' = <<>>
    /\ filters' = InitFilters
    /\ detailPending' = {}

\* the mount effect: fetchWallet(), fetchTransactions(), fetchCategories()
DetailMount ==
    /\ Rendered = Page("/wallets/:id")
    /\ ~detailPage.mounted /\ detailPage.isLoading
    /\ detailPage' = [detailPage EXCEPT !.mounted = TRUE, !.isLoadingCategories = TRUE]
    /\ detailPending' = { FetchRequest("fetchWallet"), FetchRequest("fetchTransactions"),
                          FetchRequest("fetchCategories") }
    /\ sent' = { GetJson("/api/wallets/:id", TRUE), GetJson(TransactionsPath, TRUE),
                 GetJson("/api/categories", TRUE) }
    /\ lastEvent' = Other
    /\ UNCHANGED <<aroundDetail, location, transactions, wallet, categories, form,
                   confirmation, transactionsCreated>>

\* fetchWallet from the response on
FetchWalletResponse(q, outcome) ==
    LET result == ApiCall(outcome) IN
    /\ q \in detailPending /\ q.kind = "fetchWallet"
    /\ IF FetchDenied(result)
       THEN LeaveDetail
       ELSE /\ detailPending' = detailPending \ {q}
            /\ wallet' = IF result.kind = "value" THEN StoredWallet
                         ELSE wallet
            /\ UNCHANGED <<location, transactions, categories, detailPage, form, confirmation,
                           filters>>
    /\ sent' = {}
    /\ lastEvent' = Showed("fetchWallet",
                           IF result.kind = "value" \/ FetchDenied(result) THEN NoToast
                           ELSE ErrorToast(result, "Failed to load wallet"))
    /\ UNCHANGED <<besideDetail, transactionsCreated, transactionsDeleted, effectRuns>>

\* fetchTransactions from the response on
FetchTransactionsResponse(q, outcome, data) ==
    LET result == ApiCall(outcome) IN
    /\ q \in detailPending /\ q.kind = "fetchTransactions"
    /\ IF FetchDenied(result)
       THEN LeaveDetail
       ELSE /\ detailPending' = detailPending \ {q}
            /\ transactions' = IF result.kind = "value" THEN data ELSE transactions
            /\ detailPage' = [detailPage EXCEPT !.isLoading = FALSE]
            /\ UNCHANGED <<location, wallet, categories, form, confirmation, filters>>
    /\ sent' = {}
    /\ lastEvent' = Showed("fetchTransactions",
                           IF result.kind = "value" \/ FetchDenied(result) THEN NoToast
                           ELSE ErrorToast(result, "Failed to load transactions"))
    /\ UNCHANGED <<besideDetail, transactionsCreated, transactionsDeleted, effectRuns>>

\* fetchCategories from the response on
FetchCategoriesResponse(q, outcome, data) ==
    LET result == ApiCall(outcome) IN
    /\ q \in detailPending /\ q.kind = "fetchCategories"
    /\ detailPending' = detailPending \ {q}
    /\ IF result.kind = "value"
       THEN /\ categories' = data
            /\ form' = AutoSelect(form, form, data, data # categories)
       ELSE UNCHANGED <<categories, form>>
    /\ detailPage' = [detailPage EXCEPT !.isLoadingCategories = FALSE]
    /\ sent' = {}
    /\ lastEvent' = Showed("fetchCategories",
                           IF result.kind = "value" THEN NoToast
                           ELSE [type |-> "error", key |-> "Failed to load categories",
                                 text |-> IF result.kind = "ApiError" THEN result.message
                                          ELSE <<>>])
    /\ UNCHANGED <<aroundDetail, location, transactions, wallet, confirmation,
                   transactionsCreated>>

\* the buttons that open the create-transaction modal, and the overlay and
\* Cancel that close it (Cancel is disabled while submitting, the overlay is not)
SetShowTransactionModal(show) ==
    /\ DetailShown
    /\ detailPage.showModal # show
    /\ detailPage' = [detailPage EXCEPT !.showModal = show]
    /\ sent' = {}
    /\ lastEvent' = Other
    /\ UNCHANGED <<aroundDetail, location, transactions, wallet, categories, form,
                   confirmation, detailPending, transactionsCreated>>

\* The fields of the create-transaction form, all disabled while submitting.
\* The type Dropdown: setNewType
SetNewType(type) ==
    /\ DetailShown
    /\ detailPage.showModal /\ ~detailPage.isSubmitting
    /\ form' = AutoSelect(form, [form EXCEPT !.newType = type], categories, FALSE)
    /\ sent' = {}
    /\ lastEvent' = Other
    /\ UNCHANGED <<aroundDetail, location, transactions, wallet, categories, detailPage,
                   confirmation, detailPending, transactionsCreated>>

\* the amount input: setNewAmount(e.target.value)
SetNewAmount(text) ==
    /\ DetailShown
    /\ detailPage.showModal /\ ~detailPage.isSubmitting
    /\ form' = [form EXCEPT !.newAmount = NumberInputValue(text)]
    /\ sent' = {}
    /\ lastEvent' = Other
    /\ UNCHANGED <<aroundDetail, location, transactions, wallet, categories, detailPage,
                   confirmation, detailPending, transactionsCreated>>

\* the category Dropdown (its options are the categories of the form's type)
SetNewCategoryId(id) ==
    /\ DetailShown
    /\ detailPage.showModal /\ ~detailPage.isSubmitting /\ ~detailPage.isLoadingCategories
    /\ id \in Selectable(CategoryOptions(categories, form.newType))
    /\ form' = AutoSelect(form, [form EXCEPT !.newCategoryId = id], categories, FALSE)
    /\ sent' = {}
    /\ lastEvent' = OnChange("newCategoryId", id)
    /\ UNCHANGED <<aroundDetail, location, transactions, wallet, categories, detailPage,
                   confirmation, detailPending, transactionsCreated>>

\* the subcategory Dropdown (its options are the selected category's)
SetNewSubcategoryId(id) ==
    /\ DetailShown
    /\ detailPage.showModal /\ ~detailPage.isSubmitting /\ form.newCategoryId # ""
    /\ id \in Selectable(SubcategoryOptions(categories, form.newCategoryId))
    /\ form' = [form EXCEPT !.newSubcategoryId = id]
    /\ sent' = {}
    /\ lastEvent' = OnChange("newSubcategoryId", id)
    /\ UNCHANGED <<aroundDetail, location, transactions, wallet, categories, detailPage,
                   confirmation, detailPending, transactionsCreated>>

\* the date input
SetNewDate(date) ==
    /\ DetailShown
    /\ detailPage.showModal /\ ~detailPage.isSubmitting
    /\ form' = [form EXCEPT !.newDate = date]
    /\ sent' = {}
    /\ lastEvent' = Other
    /\ UNCHANGED <<aroundDetail, location, transactions, wallet, categories, detailPage,
                   confirmation, detailPending, transactionsCreated>>

\* Submitting the create-transaction form: the browser's constraint validation
\* of the amount input (min, step; not required), then handleCreateTransaction
\* up to the await of postJson.
HandleCreateTransaction ==
    LET category == FindById(categories, form.newCategoryId)
        rejected ==
            CASE form.newCategoryId = "" -> <<T("error", "Category is required")>>
              [] form.newAmount = <<>>
                   \/ (~ParseFloat(form.newAmount).nan /\ ParseFloat(form.newAmount).milli <= 0)
                   -> <<T("error", "Please enter a valid amount")>>
              [] form.newDate = "" -> <<T("error", "Date is required")>>
              [] category = <<>> -> <<T("error", "Invalid category selected")>>
              [] OTHER -> <<>>
    IN
    /\ DetailShown
    /\ detailPage.showModal /\ ~detailPage.isSubmitting
    /\ Cardinality(UserRequests) < MaxRequestsInFlight
    /\ transactionsCreated < MaxTransactionsCreated
    /\ IF AmountInvalid(form.newAmount, FALSE)
       THEN UNCHANGED <<detailPage, detailPending>> /\ sent' = {}
       ELSE IF rejected # <<>>
       THEN /\ sent' = {}
            /\ UNCHANGED <<detailPage, detailPending>>
       ELSE /\ detailPage' = [detailPage EXCEPT !.isSubmitting = TRUE]
            /\ detailPending' = detailPending \cup
                 { DetailRequest("create", 0, transactions, wallet,
                           [type |-> form.newType, amount |-> ParseFloat(form.newAmount).milli]) }
            /\ sent' = {PostJson(TransactionsPath, TRUE)}
    /\ lastEvent' = [name |-> "handleCreateTransaction", amount |-> form.newAmount,
                     toast |-> IF ~AmountInvalid(form.newAmount, FALSE) /\ rejected # <<>>
                               THEN rejected[1] ELSE NoToast]
    /\ UNCHANGED <<aroundDetail, location, transactions, wallet, categories, form,
                   confirmation, transactionsCreated>>

\* the transaction the backend answers a successful POST with
NewTransaction(body) == Transaction(Len(StoredTransactions) + transactionsCreated + 1,
                                    body.type, body.amount)

\* handleCreateTransaction from the response on
CreateTransactionResponse(q, outcome) ==
    LET result == ApiCall(outcome)
        newTransaction == NewTransaction(q.body)
    IN
    /\ q \in detailPending /\ q.kind = "create"
    /\ detailPending' = detailPending \ {q}
    /\ IF result.kind = "value"
       THEN /\ transactions' = <<newTransaction>> \o q.transactions
            /\ wallet' = BalanceAfterCreate(wallet, q.wallet, q.body.type, q.body.amount)
            /\ transactionsCreated' = transactionsCreated + 1
            /\ form' = AutoSelect(form, InitForm, categories, FALSE)
            /\ detailPage' =
                 [detailPage EXCEPT !.showModal = FALSE, !.isSubmitting = FALSE]
       ELSE /\ detailPage' = [detailPage EXCEPT !.isSubmitting = FALSE]
            /\ UNCHANGED <<transactions, wallet, transactionsCreated, form>>
    /\ sent' = {}
    /\ lastEvent' = [name |-> "CreateTransactionResponse", result |-> result,
                     transaction |-> newTransaction,
                     toast |-> IF result.kind = "value"
                               THEN T("success", "Transaction created successfully!")
                               ELSE ErrorToast(result, "Failed to create transaction")]
    /\ UNCHANGED <<aroundDetail, location, categories, confirmation>>

\* handleDeleteTransaction up to the await of deleteJson; confirmed is what the
\* user answers to confirm(...).  The delete button is never disabled.
HandleDeleteTransaction(transactionId, confirmed) ==
    /\ DetailShown
    /\ transactionId \in Ids(transactions)
    /\ Cardinality(UserRequests) < MaxRequestsInFlight
    /\ IF ~confirmed
       THEN sent' = {} /\ UNCHANGED detailPending
       ELSE /\ detailPending' = detailPending \cup
                 { DetailRequest("delete", transactionId, transactions, wallet, NoBody) }
            /\ sent' = {DeleteJson("/api/transactions/:id", TRUE)}
    /\ lastEvent' = [name |-> "handleDeleteTransaction", confirmed |-> confirmed]
    /\ UNCHANGED <<aroundDetail, location, transactions, wallet, categories, detailPage,
                   form, confirmation, transactionsCreated>>

\* handleDeleteTransaction from the response on
DeleteTransactionResponse(q, outcome) ==
    LET result == ApiCall(outcome) IN
    /\ q \in detailPending /\ q.kind = "delete"
    /\ detailPending' = detailPending \ {q}
    /\ IF result.kind = "value"
       THEN /\ wallet' = BalanceAfterDelete(wallet, q.wallet, q.transactions, q.id)
            /\ transactions' = WithoutId(q.transactions, q.id)
            /\ transactionsDeleted' = transactionsDeleted \cup {q.id}
       ELSE UNCHANGED <<transactions, wallet, transactionsDeleted>>
    /\ sent' = {}
    /\ lastEvent' = [name |-> "DeleteTransactionResponse", result |-> result,
                     transactionId |-> q.id,
                     toast |-> IF result.kind = "value"
                               THEN T("success", "Transaction deleted successfully!")
                               ELSE ErrorToast(result, "Failed to delete transaction")]
    /\ UNCHANGED <<besideDetail, location, categories, detailPage, form, confirmation,
                   transactionsCreated, filters, effectRuns>>

-----------------------------------------------------------------------------
(* WalletDetailPage: the filters of the transaction list *)

\* new URLSearchParams() after the appends of fetchTransactions: the pairs of
\* the filters that are set, in the order type, fromDate, toDate
SearchParams(f) ==
    (IF f.filterType # "" THEN << <<"type", f.filterType>> >> ELSE <<>>)
      \o (IF f.filterFromDate # "" THEN << <<"fromDate", f.filterFromDate>> >> ELSE <<>>)
      \o (IF f.filterToDate # "" THEN << <<"toDate", f.filterToDate>> >> ELSE <<>>)

\* params.toString()
RECURSIVE ParamsToString(_)
ParamsToString(params) ==
    IF params = <<>> THEN ""
    ELSE params[1][1] \o "=" \o params[1][2]
           \o (IF Len(params) > 1 THEN "&" \o ParamsToString(Tail(params)) ELSE "")

\* `/api/wallets/${id}/transactions${queryString ? `?${queryString}` : ''}`
FilteredPath(f) ==
    LET queryString == ParamsToString(SearchParams(f)) IN
    IF queryString # "" THEN TransactionsPath \o "?" \o queryString ELSE TransactionsPath

\* filterType !== '' || filterFromDate !== '' || filterToDate !== ''
HasActiveFilters(f) == f.filterType # "" \/ f.filterFromDate # "" \/ f.filterToDate # ""

\* A fetch of a later run of the load effect awaiting its response: which run
\* started it and, for fetchTransactions, the params it asked with.
Refetch(kind, run, params) == [kind |-> kind, run |-> run, params |-> params]

\* the fetchTransactions calls that await their response
TransactionFetches == { q \in detailPending : q.kind = "fetchTransactions" }

\* The days the date inputs can be set to, in order; the stored transactions are
\* all dated Today.
Calendar == <<"2025-12-31", Today, "2026-02-01">>

DayOf(date) == CHOOSE i \in 1..Len(Calendar) : Calendar[i] = date

\* the value of the param of that name, '' without one
Param(params, name) ==
    LET found == SelectSeq(params, LAMBDA pair : pair[1] = name) IN
    IF found = <<>> THEN "" ELSE found[1][2]

\* What the backend answers a GET of the transactions with: those of ts of the
\* type asked for, when Today is within the dates asked for.
Matching(ts, params) ==
    LET type     == Param(params, "type")
        fromDate == Param(params, "fromDate")
        toDate   == Param(params, "toDate")
    IN IF \/ fromDate # "" /\ DayOf(fromDate) > DayOf(Today)
          \/ toDate # "" /\ DayOf(toDate) < DayOf(Today)
       THEN <<>>
       ELSE SelectSeq(ts, LAMBDA t : type = "" \/ t.type = type)

\* the Filters button of the toolbar: setShowFilters(!showFilters)
SetShowFilters ==
    /\ DetailShown
    /\ filters' = [filters EXCEPT !.showFilters = ~@]
    /\ sent' = {}
    /\ lastEvent' = Other
    /\ UNCHANGED <<besideDetail, location, transactions, wallet, categories, detailPage, form,
                   confirmation, detailPending, transactionsCreated, transactionsDeleted,
                   effectRuns>>

\* A control of the filters panel setting the filters to after, and the load
\* effect that runs again because fetchTransactions changed with them:
\* fetchWallet(), fetchTransactions(), fetchCategories() up to their awaits.
\* Nothing is done about the fetches already awaiting their response.
ChangeFilters(after) ==
    LET run == effectRuns + 1 IN
    /\ DetailShown
    /\ filters.showFilters
    /\ after # filters
    /\ effectRuns < MaxFilterChanges
    /\ filters' = after
    /\ effectRuns' = run
    /\ detailPage' = [detailPage EXCEPT !.isLoadingCategories = TRUE]
    /\ detailPending' = detailPending \cup
         { Refetch("fetchWallet", run, <<>>),
           Refetch("fetchTransactions", run, SearchParams(after)),
           Refetch("fetchCategories", run, <<>>) }
    /\ sent' = { GetJson("/api/wallets/:id", TRUE), GetJson(FilteredPath(after), TRUE),
                 GetJson("/api/categories", TRUE) }
    /\ lastEvent' = Other
    /\ UNCHANGED <<besideDetail, location, transactions, wallet, categories, form,
                   confirmation, transactionsCreated, transactionsDeleted>>

\* the type Dropdown of the panel: setFilterType(val)
SetFilterType(type) == ChangeFilters([filters EXCEPT !.filterType = type])

\* the two date inputs of the panel
SetFilterFromDate(date) == ChangeFilters([filters EXCEPT !.filterFromDate = date])

SetFilterToDate(date) == ChangeFilters([filters EXCEPT !.filterToDate = date])

\* the Clear button, rendered while a filter is set: clearFilters
ClearFilters ==
    /\ HasActiveFilters(filters)
    /\ ChangeFilters([filters EXCEPT !.filterType = "", !.filterFromDate = "",
                                     !.filterToDate = ""])

-----------------------------------------------------------------------------
(* WalletDetailPage: quick add *)

\* the quick-add textarea (disabled while parsing)
SetQuickAddText(text) ==
    /\ DetailShown
    /\ ~detailPage.isParsingText
    /\ detailPage' = [detailPage EXCEPT !.quickAddText = text]
    /\ sent' = {}
    /\ lastEvent' = Other
    /\ UNCHANGED <<aroundDetail, location, transactions, wallet, categories, form,
                   confirmation, detailPending, transactionsCreated>>

\* A click on the quick-add button, which is disabled while parsing and while
\* the text is blank, and handleQuickAddFromText up to the await of postJson.
HandleQuickAddFromText ==
    /\ DetailShown
    /\ ~detailPage.isParsingText
    /\ Cardinality(UserRequests) < MaxRequestsInFlight
    /\ IF Falsy(Trim(detailPage.quickAddText))
       THEN \* the button is disabled; the handler itself would toast and return
            UNCHANGED <<detailPage, detailPending>> /\ sent' = {}
       ELSE /\ detailPage' = [detailPage EXCEPT !.isParsingText = TRUE]
            /\ detailPending' = detailPending \cup
                 { DetailRequest("classify", 0, <<>>, NoWallet, NoBody) }
            /\ sent' = {PostJson(ClassifyPath, TRUE)}
    /\ lastEvent' = [name |-> "handleQuickAddFromText", text |-> detailPage.quickAddText]
    /\ UNCHANGED <<aroundDetail, location, transactions, wallet, categories, form,
                   confirmation, transactionsCreated>>

\* handleQuickAddFromText from the response on
ClassifyResponse(q, outcome, draft) ==
    LET result == ApiCall(outcome)
        page == IF result.kind = "value"
                THEN [detailPage EXCEPT !.transactionDraft = <<draft>>,
                                        !.showConfirmationModal = TRUE,
                                        !.isParsingText = FALSE]
                ELSE [detailPage EXCEPT !.isParsingText = FALSE]
    IN
    /\ q \in detailPending /\ q.kind = "classify"
    /\ detailPending' = detailPending \ {q}
    /\ detailPage' = page
    /\ confirmation' = RenderConfirmation(page, categories, confirmation)
    /\ sent' = {}
    /\ lastEvent' = [name |-> "ClassifyResponse", result |-> result,
                     toast |-> IF result.kind = "value" THEN NoToast
                               ELSE ErrorToast(result, "transactions.parseError")]
    /\ UNCHANGED <<aroundDetail, location, transactions, wallet, categories, form,
                   transactionsCreated>>

\* The fields of the confirmation modal, all disabled while confirming.
\* the amount input: setAmount(e.target.value)
SetAmount(text) ==
    /\ DetailShown
    /\ confirmation.mounted /\ ~detailPage.isConfirmingTransaction
    /\ confirmation' = [confirmation EXCEPT !.amount = NumberInputValue(text)]
    /\ sent' = {}
    /\ lastEvent' = Other
    /\ UNCHANGED <<aroundDetail, location, transactions, wallet, categories, detailPage,
                   form, detailPending, transactionsCreated>>

\* the type Dropdown of the modal
ChangeType(newType) ==
    /\ DetailShown
    /\ confirmation.mounted /\ ~detailPage.isConfirmingTransaction
    /\ confirmation' = HandleTypeChange(confirmation, categories, newType)
    /\ sent' = {}
    /\ lastEvent' = [name |-> "handleTypeChange", newType |-> newType]
    /\ UNCHANGED <<aroundDetail, location, transactions, wallet, categories, detailPage,
                   form, detailPending, transactionsCreated>>

\* the category Dropdown of the modal (its options are the categories of its type)
ChangeCategory(newCategoryId) ==
    /\ DetailShown
    /\ confirmation.mounted /\ ~detailPage.isConfirmingTransaction
    /\ newCategoryId \in Selectable(CategoryOptions(categories, confirmation.type))
    /\ confirmation' = HandleCategoryChange(confirmation, categories, newCategoryId)
    /\ sent' = {}
    /\ lastEvent' = [name |-> "handleCategoryChange", newCategoryId |-> newCategoryId]
    /\ UNCHANGED <<aroundDetail, location, transactions, wallet, categories, detailPage,
                   form, detailPending, transactionsCreated>>

\* the subcategory Dropdown of the modal
SetSubcategoryId(id) ==
    /\ DetailShown
    /\ confirmation.mounted /\ ~detailPage.isConfirmingTransaction
    /\ confirmation.categoryId # ""
    /\ id \in Selectable(SubcategoryOptions(categories, confirmation.categoryId))
    /\ confirmation' = [confirmation EXCEPT !.subcategoryId = id]
    /\ sent' = {}
    /\ lastEvent' = OnChange("subcategoryId", id)
    /\ UNCHANGED <<aroundDetail, location, transactions, wallet, categories, detailPage,
                   form, detailPending, transactionsCreated>>

\* Submitting the confirmation form: the submit button is disabled while
\* confirming and without a category; the browser validates the amount (required,
\* min, step) and the date (required); then the modal's handleSubmit, and
\* handleConfirmTransaction up to the await of postJson.
HandleSubmit ==
    LET category == FindById(categories, confirmation.categoryId)
        amount == ParseFloat(confirmation.amount)
        editedData == [type   |-> confirmation.type,
                       amount |-> IF amount.nan THEN 0 ELSE amount.milli]
    IN
    /\ DetailShown
    /\ confirmation.mounted /\ ~detailPage.isConfirmingTransaction
    /\ Cardinality(UserRequests) < MaxRequestsInFlight
    /\ transactionsCreated < MaxTransactionsCreated
    /\ IF \/ confirmation.categoryId = ""
          \/ AmountInvalid(confirmation.amount, TRUE)
          \/ confirmation.date = ""
          \/ category = <<>>
       THEN UNCHANGED <<detailPage, detailPending>> /\ sent' = {}
       ELSE /\ detailPage' = [detailPage EXCEPT !.isConfirmingTransaction = TRUE]
            /\ detailPending' = detailPending \cup
                 { DetailRequest("confirm", 0, transactions, wallet, editedData) }
            /\ sent' = {PostJson(TransactionsPath, TRUE)}
    /\ lastEvent' = [name |-> "handleSubmit", amount |-> confirmation.amount]
    /\ UNCHANGED <<aroundDetail, location, transactions, wallet, categories, form,
                   confirmation, transactionsCreated>>

\* handleConfirmTransaction from the response on
ConfirmTransactionResponse(q, outcome) ==
    LET result == ApiCall(outcome)
        newTransaction == NewTransaction(q.body)
        page == IF result.kind = "value"
                THEN [detailPage EXCEPT !.showConfirmationModal = FALSE,
                                        !.transactionDraft = <<>>,
                                        !.quickAddText = <<>>,
                                        !.isConfirmingTransaction = FALSE]
                ELSE [detailPage EXCEPT !.isConfirmingTransaction = FALSE]
    IN
    /\ q \in detailPending /\ q.kind = "confirm"
    /\ detailPending' = detailPending \ {q}
    /\ IF result.kind = "value"
       THEN /\ transactions' = <<newTransaction>> \o q.transactions
            /\ transactionsCreated' = transactionsCreated + 1
       ELSE UNCHANGED <<transactions, transactionsCreated>>
    /\ detailPage' = page
    /\ confirmation' = RenderConfirmation(page, categories, confirmation)
    /\ sent' = {}
    /\ lastEvent' = [name |-> "ConfirmTransactionResponse", result |-> result,
                     transaction |-> newTransaction,
                     toast |-> IF result.kind = "value"
                               THEN T("success", "transactions.parseSuccess")
                               ELSE ErrorToast(result, "transactions.createError")]
    /\ UNCHANGED <<aroundDetail, location, wallet, categories, form>>

\* handleCancelConfirmation: the modal's Cancel button (disabled while
\* confirming) and its overlay (never disabled)
HandleCancelConfirmation ==
    LET page == [detailPage EXCEPT !.showConfirmationModal = FALSE, !.transactionDraft = <<>>] IN
    /\ DetailShown
    /\ confirmation.mounted
    /\ detailPage' = page
    /\ confirmation' = RenderConfirmation(page, categories, confirmation)
    /\ sent' = {}
    /\ lastEvent' = Other
    /\ UNCHANGED <<aroundDetail, location, transactions, wallet, categories, form,
                   detailPending, transactionsCreated>>

-----------------------------------------------------------------------------
(* DashboardPage *)

\* a TransactionDto with its date (a day number)
DatedTransaction(id, type, amount, date) ==
    [id |-> id, type |-> type, amount |-> amount, date |-> date]

\* what GET /api/wallets/:id/transactions may answer the dashboard with
DashboardTransactionLists ==
    { <<>>,
      << DatedTransaction(1, "CREDIT", 5000, 2), DatedTransaction(2, "DEBIT", 2000, 3),
         DatedTransaction(3, "DEBIT", 1000, 1) >> }

DashboardOutcomes ==
    { Response(200, Body("object", Null, Null)),
      Response(500, Body("object", <<109>>, Null)),
      NetworkFailure }

InitDashboard == [mounted |-> FALSE, isLoading |-> TRUE, wallets |-> <<>>,
                  recentTransactions |-> <<>>]

\* s (latest first) with x put before the first transaction that is older than x
RECURSIVE InsertByDate(_, _)
InsertByDate(s, x) ==
    IF s = <<>> THEN <<x>>
    ELSE IF x.date > s[1].date THEN <<x>> \o s
    ELSE <<s[1]>> \o InsertByDate(Tail(s), x)

\* allTransactions.sort((a, b) => new Date(b.date).getTime() - new Date(a.date).getTime()):
\* latest first, equal dates in their order (the sort is stable)
RECURSIVE SortByDate(_)
SortByDate(ts) ==
    IF ts = <<>> THEN <<>>
    ELSE InsertByDate(SortByDate(SubSeq(ts, 1, Len(ts) - 1)), ts[Len(ts)])

\* slice(0, 5)
Slice5(ts) == SubSeq(ts, 1, IF Len(ts) < 5 THEN Len(ts) ELSE 5)

\* income - expenses of the transactions of one wallet
CalculatedBalance(ts) ==
    SumAmounts(SelectSeq(ts, LAMBDA t : t.type = "CREDIT"))
      - SumAmounts(SelectSeq(ts, LAMBDA t : t.type = "DEBIT"))

WithBalance(w, calculatedBalance) ==
    [id |-> w.id, name |-> w.name, currency |-> w.currency,
     calculatedBalance |-> calculatedBalance]

\* a fetchData call awaiting GET /api/wallets
AwaitingWallets ==
    [walletsData |-> <<>>, next |-> 0, walletsWithBalance |-> <<>>, allTransactions |-> <<>>]

Without(s, i) == SubSeq(s, 1, i - 1) \o SubSeq(s, i + 1, Len(s))

\* fetchData up to the await of getJson('/api/wallets')
FetchData ==
    /\ dashboardFetching' = Append(dashboardFetching, AwaitingWallets)
    /\ sent' = {GetJson("/api/wallets", TRUE)}

\* useEffect(() => { fetchData() }, [fetchData]) after the first render
DashboardMount ==
    /\ Rendered = Page("/dashboard")
    /\ ~dashboard.mounted
    /\ dashboard' = [dashboard EXCEPT !.mounted = TRUE]
    /\ FetchData
    /\ lastEvent' = Other
    /\ UNCHANGED aroundDashboard

\* LanguageSelector.changeLanguage on the dashboard: a new t, so a new fetchData
\* (useCallback over [showToast, t]), and the effect over [fetchData] runs again
DashboardChangeLanguage ==
    /\ Rendered = Page("/dashboard")
    /\ dashboard.mounted
    /\ Len(dashboardFetching) < MaxDashboardFetches
    /\ FetchData
    /\ lastEvent' = Other
    /\ UNCHANGED <<aroundDashboard, dashboard>>

\* The end of the loop of fetchData: setWallets, setRecentTransactions, and the
\* finally block.
FinishFetchData(i, run) ==
    /\ dashboardFetching' = Without(dashboardFetching, i)
    /\ dashboard' = [dashboard EXCEPT
                       !.wallets = run.walletsWithBalance,
                       !.recentTransactions = Slice5(SortByDate(run.allTransactions)),
                       !.isLoading = FALSE]
    /\ sent' = {}

\* The loop of fetchData from wallet number run.next on: the next GET, or the end.
ContinueFetchData(i, run) ==
    IF run.next <= Len(run.walletsData)
    THEN /\ dashboardFetching' = [dashboardFetching EXCEPT ![i] = run]
         /\ sent' = {GetJson(TransactionsPath, TRUE)}
         /\ UNCHANGED dashboard
    ELSE FinishFetchData(i, run)

\* fetchData from the response of GET /api/wallets on.  The event records which
\* request was answered (wallet: 0 for the list, else the position of the wallet
\* whose transactions were asked for) and which wallet's transactions are asked
\* for next (asked: 0 for none).
DashboardWalletsResponse(i, outcome, data) ==
    LET result == ApiCall(outcome)
        run == [AwaitingWallets EXCEPT !.walletsData = data, !.next = 1]
    IN
    /\ i \in 1..Len(dashboardFetching)
    /\ dashboardFetching[i].next = 0
    /\ IF result.kind = "value"
       THEN ContinueFetchData(i, run)
       ELSE /\ dashboardFetching' = Without(dashboardFetching, i)
            /\ dashboard' = [dashboard EXCEPT !.isLoading = FALSE]
            /\ sent' = {}
    /\ lastEvent' = [name |-> "fetchData", wallet |-> 0,
                     asked |-> IF result.kind = "value" /\ data # <<>> THEN 1 ELSE 0,
                     result |-> result,
                     toast |-> IF result.kind = "value" THEN NoToast
                               ELSE ErrorToast(result, "errors.failedToLoad")]
    /\ UNCHANGED aroundDashboard

\* fetchData from the response of GET /api/wallets/:id/transactions of one wallet
\* on; a failure is caught inside the loop.
DashboardTransactionsResponse(i, outcome, data) ==
    LET result == ApiCall(outcome)
        old == dashboardFetching[i]
        w == old.walletsData[old.next]
        run == IF result.kind = "value"
               THEN [old EXCEPT
                       !.walletsWithBalance = Append(@, WithBalance(w, CalculatedBalance(data))),
                       !.allTransactions = @ \o data,
                       !.next = @ + 1]
               ELSE [old EXCEPT
                       !.walletsWithBalance = Append(@, WithBalance(w, 0)),
                       !.next = @ + 1]
    IN
    /\ i \in 1..Len(dashboardFetching)
    /\ dashboardFetching[i].next > 0
    /\ ContinueFetchData(i, run)
    /\ lastEvent' = [name |-> "fetchData", wallet |-> old.next,
                     asked |-> IF run.next <= Len(run.walletsData) THEN run.next ELSE 0,
                     result |-> result, toast |-> NoToast]
    /\ UNCHANGED aroundDashboard

-----------------------------------------------------------------------------
(* public/sw.js: the service worker.  A URL is its text; a cache is          *)
(* [name, entries], its entries are [url, response] with one entry per URL; *)
(* a response is [status, type, from], and an absent one (undefined) <<>>.  *)

CACHE_NAME == "finance-control-v1"

\* self.location.origin, against which the worker's relative URLs resolve
Origin == <<104, 116, 116, 112, 115, 58, 47, 47, 104>>

AbsoluteUrl(path) == Origin \o path

\* '/', '/index.html', '/manifest.json'
ASSETS_TO_CACHE == << <<47>>, <<47, 105, 110, 100, 101, 120, 46, 104, 116, 109, 108>>, <<47, 109, 97, 110, 105, 102, 101, 115, 116, 46, 106, 115, 111, 110>> >>

\* String.prototype.includes
Includes(s, part) ==
    \E i \in 1..(Len(s) - Len(part) + 1) : SubSeq(s, i, i + Len(part) - 1) = part

\* new URL(request.url).protocol: the scheme with its colon
Protocol(url) ==
    LET colons == { i \in 1..Len(url) : url[i] = 58 } IN
    IF colons = {} THEN <<>>
    ELSE SubSeq(url, 1, CHOOSE i \in colons : \A j \in colons : i <= j)

SwRequest(method, url, mode) == [method |-> method, url |-> url, mode |-> mode]

\* the requests of the pages the worker controls, and of a browser extension
SwRequests ==
    { SwRequest("GET", AbsoluteUrl(<<47>>), "navigate"),
      SwRequest("GET", AbsoluteUrl(<<47, 119, 97, 108, 108, 101, 116, 115>>), "navigate"),
      SwRequest("GET", AbsoluteUrl(<<47, 97, 46, 106, 115>>), "no-cors"),
      SwRequest("POST", AbsoluteUrl(<<47, 97, 46, 106, 115>>), "cors"),
      SwRequest("GET", AbsoluteUrl(<<47, 97, 112, 105, 47, 119>>), "cors"),
      SwRequest("GET", <<99, 104, 114, 111, 109, 101, 45, 101, 120, 116, 101, 110, 115, 105, 111, 110, 58, 47, 47, 101, 47, 97, 46, 106, 115>>, "no-cors") }

SwResponse(status, type, from) == [status |-> status, type |-> type, from |-> from]

\* what fetch(request) settles with: a response, or <<>> for a rejection
NetworkOutcomes ==
    { <<SwResponse(200, "basic", "network")>>, <<SwResponse(404, "basic", "network")>>,
      <<SwResponse(200, "cors", "network")>>, <<>> }

Idle == [stage |-> "idle"]

\* the caches a previous version of the application left behind
OldCaches ==
    LET v0 == [name |-> "finance-control-v0",
               entries |-> { [url |-> AbsoluteUrl(<<47, 97, 46, 106, 115>>),
                              response |-> SwResponse(200, "basic", "v0")] }]
        v1 == [name |-> CACHE_NAME,
               entries |-> { [url |-> AbsoluteUrl(<<47, 119, 97, 108, 108, 101, 116, 115>>),
                              response |-> SwResponse(200, "basic", "v1")] }]
    IN { <<>>, <<v0>>, <<v1, v0>> }

CacheNamesOf(storage) == [i \in DOMAIN storage |-> storage[i].name]

\* caches.open(name): the cache is created when there is none of that name
CachesOpen(storage, name) ==
    IF \E i \in DOMAIN storage : storage[i].name = name THEN storage
    ELSE Append(storage, [name |-> name, entries |-> {}])

\* caches.delete(name)
CachesDelete(storage, name) == SelectSeq(storage, LAMBDA c : c.name # name)

\* cache.put(request, response): replaces the entry of the URL
CachePutEntry(storage, name, url, response) ==
    [i \in DOMAIN storage |->
       IF storage[i].name = name
       THEN [storage[i] EXCEPT !.entries =
               { e \in @ : e.url # url } \cup { [url |-> url, response |-> response] }]
       ELSE storage[i]]

\* caches.match(url): the first match in the caches, in creation order
CachesMatch(storage, url) ==
    LET holding == SelectSeq(storage, LAMBDA c : \E e \in c.entries : e.url = url) IN
    IF holding = <<>> THEN <<>>
    ELSE << (CHOOSE e \in holding[1].entries : e.url = url).response >>

RECURSIVE AddAll(_, _, _)
\* cache.addAll(urls) when every request succeeded
AddAll(storage, name, urls) ==
    IF urls = <<>> THEN storage
    ELSE AddAll(CachePutEntry(storage, name, AbsoluteUrl(urls[1]),
                              SwResponse(200, "basic", "install")),
                name, Tail(urls))

\* The install handler: caches.open(CACHE_NAME), cache.addAll(ASSETS_TO_CACHE),
\* skipWaiting(); a failure of addAll is caught and logged, and the install
\* succeeds all the same.
Install(added) ==
    /\ worker.phase = "parsed"
    /\ worker' = [worker EXCEPT !.phase = "installed"]
    /\ caches' = IF added THEN AddAll(CachesOpen(caches, CACHE_NAME), CACHE_NAME, ASSETS_TO_CACHE)
                 ELSE CachesOpen(caches, CACHE_NAME)
    /\ lastEvent' = [name |-> "install", added |-> added]
    /\ UNCHANGED <<aroundWorker, fetchEvents>>

\* The activate handler up to the answer of caches.keys()
Activate ==
    /\ worker.phase = "installed"
    /\ worker' = [phase |-> "activating", cacheNames |-> CacheNamesOf(caches)]
    /\ lastEvent' = [name |-> "activate"]
    /\ UNCHANGED <<aroundWorker, caches, fetchEvents>>

DeleteOld_KeepsAll(storage, cacheNames) == storage

RECURSIVE DeleteOld(_, _)
\* cacheNames.map(cacheName => cacheName !== CACHE_NAME ? caches.delete(cacheName) : undefined)
DeleteOld(storage, cacheNames) ==
    IF cacheNames = <<>> THEN storage
    ELSE DeleteOld(IF cacheNames[1] # CACHE_NAME THEN CachesDelete(storage, cacheNames[1])
                   ELSE storage,
                   Tail(cacheNames))

\* the rest of the activate handler: the deletions, then clients.claim()
Activated ==
    /\ worker.phase = "activating"
    /\ caches' = DeleteOld(caches, worker.cacheNames)
    /\ worker' = [phase |-> "activated", cacheNames |-> <<>>]
    /\ lastEvent' = [name |-> "activated", before |-> caches]
    /\ UNCHANGED <<aroundWorker, fetchEvents>>

Skipped_ApiHandled(request) ==
    request.method # "GET" \/ Protocol(request.url) \notin { <<104, 116, 116, 112, 58>>, <<104, 116, 116, 112, 115, 58>> }

\* the three early returns of the fetch handler
Skipped(request) ==
    \/ request.method # "GET"
    \/ Protocol(request.url) \notin { <<104, 116, 116, 112, 58>>, <<104, 116, 116, 112, 115, 58>> }
    \/ Includes(request.url, <<47, 97, 112, 105, 47>>)

\* event.respondWith settles: the response the page gets, <<>> for a network error
RespondWith(request, via, response) ==
    [name |-> "respondWith", request |-> request, via |-> via, response |-> response]

\* The fetch handler up to event.respondWith(caches.match(request)...); without
\* respondWith the browser handles the request itself.
FetchEvent(i, request) ==
    /\ worker.phase = "activated"
    /\ fetchEvents[i] = Idle
    /\ fetchEvents' =
         IF Skipped(request) THEN fetchEvents
         ELSE [fetchEvents EXCEPT ![i] = [stage |-> "match", request |-> request]]
    /\ lastEvent' = [name |-> "fetch", request |-> request, handled |-> ~Skipped(request)]
    /\ UNCHANGED <<aroundWorker, worker, caches>>

\* caches.match(request) answered
MatchAnswered(i) ==
    LET event == fetchEvents[i]
        cachedResponse == CachesMatch(caches, event.request.url)
    IN
    /\ event.stage = "match"
    /\ IF cachedResponse # <<>>
       THEN /\ fetchEvents' = [fetchEvents EXCEPT ![i] = Idle]
            /\ lastEvent' = RespondWith(event.request, "cache", cachedResponse)
       ELSE /\ fetchEvents' = [fetchEvents EXCEPT ![i].stage = "fetch"]
            /\ lastEvent' = [name |-> "fetch(request)", request |-> event.request]
    /\ UNCHANGED <<aroundWorker, worker, caches>>

\* fetch(request) settled: the then handler, or the catch handler
NetworkAnswered(i, outcome) ==
    LET event == fetchEvents[i] IN
    /\ event.stage = "fetch"
    /\ IF outcome # <<>>
       THEN LET networkResponse == outcome[1] IN
            /\ fetchEvents' =
                 IF networkResponse.status # 200 \/ networkResponse.type # "basic"
                 THEN [fetchEvents EXCEPT ![i] = Idle]
                 ELSE [fetchEvents EXCEPT ![i] =
                         [stage |-> "put", request |-> event.request,
                          responseToCache |-> networkResponse]]
            /\ lastEvent' = RespondWith(event.request, "network", outcome)
       ELSE IF event.request.mode = "navigate"
            THEN /\ fetchEvents' = [fetchEvents EXCEPT ![i].stage = "offline"]
                 /\ lastEvent' = [name |-> "catch", request |-> event.request]
            ELSE /\ fetchEvents' = [fetchEvents EXCEPT ![i] = Idle]
                 /\ lastEvent' = RespondWith(event.request, "catch", <<>>)
    /\ UNCHANGED <<aroundWorker, worker, caches>>

\* caches.match('/index.html') of the catch handler answered
OfflineAnswered(i) ==
    LET event == fetchEvents[i] IN
    /\ event.stage = "offline"
    /\ fetchEvents' = [fetchEvents EXCEPT ![i] = Idle]
    /\ lastEvent' = RespondWith(event.request, "offline",
                                CachesMatch(caches, AbsoluteUrl(<<47, 105, 110, 100, 101, 120, 46, 104, 116, 109, 108>>)))
    /\ UNCHANGED <<aroundWorker, worker, caches>>

\* caches.open(CACHE_NAME).then(cache => cache.put(request, responseToCache))
CachePut(i) ==
    LET event == fetchEvents[i] IN
    /\ event.stage = "put"
    /\ caches' = CachePutEntry(CachesOpen(caches, CACHE_NAME), CACHE_NAME,
                               event.request.url, event.responseToCache)
    /\ fetchEvents' = [fetchEvents EXCEPT ![i] = Idle]
    /\ lastEvent' = [name |-> "cache.put", request |-> event.request,
                     response |-> event.responseToCache]
    /\ UNCHANGED <<aroundWorker, worker>>

-----------------------------------------------------------------------------
(* useToast and Toast, as every page uses them:                              *)
(* {toast && <Toast message={toast.message} type={toast.type}               *)
(*                  onClose={hideToast} />}                                  *)
(* Time passes in steps of a third of the default duration.                 *)

\* duration = 3000
duration == 3000

TimeStep == duration \div 3

ToastMessages == {"created", "deleted", "failed"}

ToastTypes == {"success", "error", "info"}

\* The auto-dismiss effect of Toast, with dependencies [duration, onClose]: it
\* runs when Toast mounts, and not when Toast is rendered again with another
\* message, for duration and hideToast are what they were.
TimerAfterRender(before, after, timer) ==
    IF after = <<>> THEN <<>>
    ELSE IF before = <<>> THEN <<duration>>
    ELSE timer

\* showToast(message, type): setToast({ message, type })
ShowToast(message, type) ==
    LET shown == <<[message |-> message, type |-> type]>> IN
    /\ toastState' = shown
    /\ toastTimer' = TimerAfterRender(toastState, shown, toastTimer)
    /\ toastShownFor' = 0
    /\ lastEvent' = [name |-> "showToast", replaced |-> toastState # <<>>]
    /\ UNCHANGED aroundToast

\* time passes, up to the moment the timer is due
TimePasses ==
    /\ toastTimer # <<>> /\ toastTimer[1] >= TimeStep
    /\ toastTimer' = <<toastTimer[1] - TimeStep>>
    /\ toastShownFor' = toastShownFor + TimeStep
    /\ lastEvent' = [name |-> "time"]
    /\ UNCHANGED <<aroundToast, toastState>>

\* hideToast, called by the timer or by the close button: setToast(null); Toast
\* unmounts and the cleanup of its effect clears the timer
HideToast(by) ==
    /\ toastState' = <<>>
    /\ toastTimer' = TimerAfterRender(toastState, <<>>, toastTimer)
    /\ toastShownFor' = 0
    /\ lastEvent' = [name |-> "hideToast", by |-> by, message |-> toastState[1].message,
                     shownFor |-> toastShownFor]
    /\ UNCHANGED aroundToast

\* the setTimeout callback: onClose()
ToastTimerFires ==
    /\ toastTimer = <<0>>
    /\ HideToast("timer")

\* the close button of Toast: onClick={onClose}
ToastClose ==
    /\ toastState # <<>>
    /\ HideToast("user")

-----------------------------------------------------------------------------
(* CategoriesPage *)

\* a CategoryDto of the page: its id and whether it is a default category
ListedCategory(id, isDefault) == [id |-> id, isDefault |-> isDefault]

\* what GET /api/categories may answer
ListedCategoryLists ==
    { <<>>,
      << ListedCategory(1, TRUE), ListedCategory(2, FALSE), ListedCategory(3, FALSE) >> }

FilterTypes == {"", "DEBIT"}

\* `/api/categories${params}`
CategoriesPath(filterType) ==
    IF filterType # "" THEN "/api/categories?type=" \o filterType ELSE "/api/categories"

\* A request of the page awaiting its response: what was asked, and for a delete
\* the category and the categories of the handler's closure.
CategoriesRequest(kind, path, id, cats) ==
    [kind |-> kind, path |-> path, id |-> id, categories |-> cats]

\* the page is on screen with its list (not the loading line)
CategoriesShown ==
    Rendered = Page("/categories") /\ categoriesPage.mounted /\ ~categoriesPage.isLoading

\* useEffect(() => fetchCategories(), [fetchCategories]) on mount: fetchCategories
\* up to the await of getJson
CategoriesMount ==
    /\ Rendered = Page("/categories")
    /\ ~categoriesPage.mounted
    /\ categoriesPage' = [categoriesPage EXCEPT !.mounted = TRUE]
    /\ categoriesPending' = categoriesPending \cup
         { CategoriesRequest("fetch", CategoriesPath(categoriesPage.filterType), 0, <<>>) }
    /\ sent' = {GetJson(CategoriesPath(categoriesPage.filterType), TRUE)}
    /\ lastEvent' = Other
    /\ UNCHANGED <<aroundCategories, categoryList>>

\* the filter select: setFilterType, a new fetchCategories (useCallback over
\* [filterType, showToast, t]) and the effect again
SetCategoriesFilter(filterType) ==
    /\ CategoriesShown
    /\ filterType # categoriesPage.filterType
    /\ Cardinality(categoriesPending) < MaxCategoryRequests
    /\ categoriesPage' = [categoriesPage EXCEPT !.filterType = filterType]
    /\ categoriesPending' = categoriesPending \cup
         { CategoriesRequest("fetch", CategoriesPath(filterType), 0, <<>>) }
    /\ sent' = {GetJson(CategoriesPath(filterType), TRUE)}
    /\ lastEvent' = Other
    /\ UNCHANGED <<aroundCategories, categoryList>>

\* fetchCategories from the response on
FetchListedCategoriesResponse(q, outcome, data) ==
    LET result == ApiCall(outcome) IN
    /\ q \in categoriesPending /\ q.kind = "fetch"
    /\ categoriesPending' = categoriesPending \ {q}
    /\ categoryList' = IF result.kind = "value" THEN data ELSE categoryList
    /\ categoriesPage' = [categoriesPage EXCEPT !.isLoading = FALSE]
    /\ sent' = {}
    /\ lastEvent' = [name |-> "fetchCategories", result |-> result,
                     toast |-> IF result.kind = "value" THEN NoToast
                               ELSE ErrorToast(result, "categories.loadError")]
    /\ UNCHANGED aroundCategories

\* A click on the delete button of a category, which is rendered for the
\* categories that are not default, and handleDeleteCategory up to the await of
\* deleteJson; confirmed is what the user answers to confirm(...).
HandleDeleteCategory(categoryId, confirmed) ==
    LET category == FindById(categoryList, categoryId)
        refused  == category # <<>> /\ category[1].isDefault
    IN
    /\ CategoriesShown
    /\ category # <<>> /\ ~category[1].isDefault
    /\ Cardinality(categoriesPending) < MaxCategoryRequests
    /\ IF refused \/ ~confirmed
       THEN sent' = {} /\ UNCHANGED categoriesPending
       ELSE /\ categoriesPending' = categoriesPending \cup
                 { CategoriesRequest("delete", "/api/categories/:id", categoryId, categoryList) }
            /\ sent' = {DeleteJson("/api/categories/:id", TRUE)}
    /\ lastEvent' = [name |-> "handleDeleteCategory", categoryId |-> categoryId,
                     confirmed |-> confirmed,
                     toast |-> IF refused THEN T("error", "categories.deleteDefaultError")
                               ELSE NoToast]
    /\ UNCHANGED <<aroundCategories, categoriesPage, categoryList>>

\* handleDeleteCategory from the response on: setCategories(categories.filter(...))
\* with the categories of the render in which the button was clicked
DeleteCategoryResponse(q, outcome) ==
    LET result == ApiCall(outcome) IN
    /\ q \in categoriesPending /\ q.kind = "delete"
    /\ categoriesPending' = categoriesPending \ {q}
    /\ categoryList' = IF result.kind = "value" THEN WithoutId(q.categories, q.id)
                       ELSE categoryList
    /\ sent' = {}
    /\ lastEvent' = [name |-> "DeleteCategoryResponse", result |-> result,
                     categoryId |-> q.id,
                     toast |-> IF result.kind = "value"
                               THEN T("success", "categories.deleteSuccess")
                               ELSE ErrorToast(result, "categories.deleteError")]
    /\ UNCHANGED <<aroundCategories, categoriesPage>>

-----------------------------------------------------------------------------
(* Specifications *)

\* the app as it starts with an empty sessionStorage
InitAuth ==
    /\ sessionStorage = Null
    /\ currentUser = GetUsernameFromCredentials(Null)
    /\ location = Resolve("/", GetUsernameFromCredentials(Null))
    /\ loginPage = InitAuthPage
    /\ loginPending = {}
    /\ registerPage = InitAuthPage
    /\ registerPending = {}
    /\ registerTimer = FALSE
    /\ importPending = FALSE
    /\ lastLogin = <<Null, Null>>
    /\ afterLogout = FALSE

\* the app after "abc" / "p" logged in and went to path
InitSession(path) ==
    /\ sessionStorage = StoreCredentials(<<97, 98, 99>>, <<112>>)
    /\ currentUser = <<97, 98, 99>>
    /\ location = Resolve(path, <<97, 98, 99>>)
    /\ loginPage = InitAuthPage
    /\ loginPending = {}
    /\ registerPage = InitAuthPage
    /\ registerPending = {}
    /\ registerTimer = FALSE
    /\ importPending = FALSE
    /\ lastLogin = << <<97, 98, 99>>, <<112>> >>
    /\ afterLogout = FALSE

InitWallets ==
    /\ wallets = <<>>
    /\ walletsPage = InitWalletsPage
    /\ walletsFetching = 0
    /\ walletsCreating = <<>>
    /\ walletsCreated = 0

InitApi ==
    /\ apiResponse = Response(200, Body("empty", Null, Null))
    /\ apiResult = Pending

InitDetail ==
    /\ transactions = <<>>
    /\ wallet = NoWallet
    /\ categories = <<>>
    /\ detailPage = InitDetailPage
    /\ form = InitForm
    /\ confirmation = NoConfirmation
    /\ detailPending = {}
    /\ transactionsCreated = 0
    /\ transactionsDeleted = {}
    /\ filters = InitFilters
    /\ effectRuns = 0

\* the components modelled after the three pages, before they are used
\* the worker before its install event, over the caches of storages
InitWorker(storages) ==
    /\ worker = [phase |-> "parsed", cacheNames |-> <<>>]
    /\ caches \in storages
    /\ fetchEvents = [i \in 1..MaxFetchEvents |-> Idle]

InitDashboardState ==
    /\ dashboard = InitDashboard
    /\ dashboardFetching = <<>>

InitToast ==
    /\ toastState = <<>>
    /\ toastTimer = <<>>
    /\ toastShownFor = 0

InitCategories ==
    /\ categoriesPage = [mounted |-> FALSE, isLoading |-> TRUE, filterType |-> ""]
    /\ categoryList = <<>>
    /\ categoriesPending = {}

InitLater == InitWorker({<<>>}) /\ InitToast /\ InitCategories

InitMore == InitDashboardState /\ InitLater

InitHistory ==
    /\ sent = {}
    /\ lastEvent = [name |-> "Init"]

Init == InitAuth /\ InitWallets /\ InitApi /\ InitDetail /\ InitMore /\ InitHistory

\* The handlers of NextAuth leave the state of the pages behind the login alone.
NextAuth ==
    \/ (\E i \in LoginInputs : LoginSubmit(i[1], i[2])) /\ UNCHANGED pageVars
    \/ (\E q \in loginPending, o \in LoginOutcomes : LoginResponse(q, o)) /\ UNCHANGED pageVars
    \/ Logout /\ UNCHANGED pageVars
    \/ (\E path \in Paths : GoTo(path)) /\ UNCHANGED pageVars
    \/ (\E path \in Paths : Reload(path)) /\ UNCHANGED pageVars
    \/ (\E f \in RegisterForms : RegisterSubmit(f[1], f[2], f[3], f[4])) /\ UNCHANGED pageVars
    \/ (\E q \in registerPending, o \in RegisterOutcomes : RegisterResponse(q, o))
          /\ UNCHANGED pageVars
    \/ RegisterTimerFires /\ UNCHANGED pageVars
    \/ (\E fn \in Wrappers : PageCall(fn)) /\ UNCHANGED pageVars
    \/ CsvImport /\ UNCHANGED pageVars
    \/ (\E o \in ImportOutcomes : CsvImportResponse(o)) /\ UNCHANGED pageVars

SpecAuth == Init /\ [][NextAuth]_vars

InitWalletsSession ==
    InitSession("/wallets") /\ InitWallets /\ InitApi /\ InitDetail /\ InitMore /\ InitHistory

NextWallets ==
    \/ WalletsMount
    \/ ChangeLanguage
    \/ \E o \in WalletsOutcomes, data \in WalletLists : FetchWalletsResponse(o, data)
    \/ \E show \in BOOLEAN : SetShowModal(show)
    \/ \E name \in WalletNames, currency \in Currencies : EditWalletForm(name, currency)
    \/ CreateWalletSubmit
    \/ \E o \in WalletsOutcomes : CreateWalletResponse(o)

SpecWallets == InitWalletsSession /\ [][NextWallets]_vars

InitDetailSession ==
    InitSession("/wallets/:id") /\ InitWallets /\ InitApi /\ InitDetail /\ InitMore /\ InitHistory

\* the page from its mount on: its fetches, and creating and deleting
\* transactions with the create form
NextDetail ==
    \/ DetailMount
    \/ \E q \in detailPending, o \in DetailOutcomes : FetchWalletResponse(q, o)
    \/ \E q \in detailPending, o \in DetailOutcomes, data \in TransactionLists :
          FetchTransactionsResponse(q, o, data)
    \/ \E q \in detailPending, o \in DetailOutcomes, data \in CategoryLists :
          FetchCategoriesResponse(q, o, data)
    \/ \E show \in BOOLEAN : SetShowTransactionModal(show)
    \/ \E text \in PositiveAmountTexts : SetNewAmount(text)
    \/ HandleCreateTransaction
    \/ \E q \in detailPending, o \in RequestOutcomes : CreateTransactionResponse(q, o)
    \/ \E id \in Ids(transactions), confirmed \in BOOLEAN : HandleDeleteTransaction(id, confirmed)
    \/ \E q \in detailPending, o \in RequestOutcomes : DeleteTransactionResponse(q, o)

SpecDetail == InitDetailSession /\ [][NextDetail]_vars

\* the page after its three fetches succeeded
InitLoaded ==
    /\ InitSession("/wallets/:id") /\ InitWallets /\ InitApi /\ InitMore /\ InitHistory
    /\ transactions = StoredTransactions
    /\ wallet = StoredWallet
    /\ categories \in CategoryLists
    /\ detailPage = [InitDetailPage EXCEPT !.mounted = TRUE, !.isLoading = FALSE]
    /\ form = AutoSelect(InitForm, InitForm, categories, TRUE)
    /\ confirmation = NoConfirmation
    /\ detailPending = {}
    /\ transactionsCreated = 0
    /\ transactionsDeleted = {}
    /\ filters = InitFilters
    /\ effectRuns = 0

\* the create-transaction form of the loaded page, with all its fields
NextCreateForm ==
    \/ \E show \in BOOLEAN : SetShowTransactionModal(show)
    \/ \E type \in Types : SetNewType(type)
    \/ \E text \in AmountTexts : SetNewAmount(text)
    \/ \E id \in Ids(categories) : SetNewCategoryId(id)
    \/ \E id \in SubcategoryIds : SetNewSubcategoryId(id)
    \/ \E date \in {"", Today} : SetNewDate(date)
    \/ HandleCreateTransaction
    \/ \E q \in detailPending, o \in RequestOutcomes : CreateTransactionResponse(q, o)

SpecCreateForm == InitLoaded /\ [][NextCreateForm]_vars

\* the two transaction forms of the loaded page and their amounts: the create
\* form, and the quick-add text with its confirmation modal
NextForms ==
    \/ \E show \in BOOLEAN : SetShowTransactionModal(show)
    \/ \E text \in AmountTexts : SetNewAmount(text)
    \/ HandleCreateTransaction
    \/ \E q \in detailPending, o \in RequestOutcomes : CreateTransactionResponse(q, o)
    \/ \E text \in QuickAddTexts : SetQuickAddText(text)
    \/ HandleQuickAddFromText
    \/ \E q \in detailPending, o \in RequestOutcomes, draft \in Drafts : ClassifyResponse(q, o, draft)
    \/ \E text \in AmountTexts : SetAmount(text)
    \/ \E type \in Types : ChangeType(type)
    \/ \E id \in Ids(categories) : ChangeCategory(id)
    \/ \E id \in SubcategoryIds : SetSubcategoryId(id)
    \/ HandleSubmit
    \/ \E q \in detailPending, o \in RequestOutcomes : ConfirmTransactionResponse(q, o)
    \/ HandleCancelConfirmation

SpecForms == InitLoaded /\ [][NextForms]_vars

\* what a backend that accepts every request answers with
Accepted == { Response(200, Body("object", Null, Null)) }

\* the loaded page with transactions created and deleted while other requests
\* are awaiting their response, on a backend that accepts every request
NextConcurrent ==
    \/ \E show \in BOOLEAN : SetShowTransactionModal(show)
    \/ \E type \in Types : SetNewType(type)
    \/ \E text \in PositiveAmountTexts : SetNewAmount(text)
    \/ HandleCreateTransaction
    \/ \E q \in detailPending, o \in Accepted : CreateTransactionResponse(q, o)
    \/ \E id \in Ids(transactions), confirmed \in BOOLEAN : HandleDeleteTransaction(id, confirmed)
    \/ \E q \in detailPending, o \in Accepted : DeleteTransactionResponse(q, o)

SpecConcurrent == InitLoaded /\ [][NextConcurrent]_vars

\* the values of the controls of the filters panel
TransactionFilterTypes == {"", "DEBIT", "CREDIT"}

FromDates == {"", "2026-02-01"}

ToDates == {"", "2025-12-31"}

\* the loaded page with its filters changed while earlier fetches are awaiting
\* their response, on a backend that accepts every request and whose
\* transactions stay as they were loaded
NextFilters ==
    \/ SetShowFilters
    \/ \E type \in TransactionFilterTypes : SetFilterType(type)
    \/ \E date \in FromDates : SetFilterFromDate(date)
    \/ \E date \in ToDates : SetFilterToDate(date)
    \/ ClearFilters
    \/ \E q \in detailPending, o \in Accepted : FetchWalletResponse(q, o)
    \/ \E q \in TransactionFetches, o \in Accepted :
          FetchTransactionsResponse(q, o, Matching(StoredTransactions, q.params))
    \/ \E q \in detailPending, o \in Accepted : FetchCategoriesResponse(q, o, categories)

SpecFilters == InitLoaded /\ [][NextFilters]_vars

\* the category and subcategory Dropdowns of the two transaction forms
NextDropdowns ==
    \/ \E show \in BOOLEAN : SetShowTransactionModal(show)
    \/ \E type \in Types : SetNewType(type)
    \/ \E text \in PositiveAmountTexts : SetNewAmount(text)
    \/ \E id \in Ids(categories) : SetNewCategoryId(id)
    \/ \E id \in SubcategoryIds : SetNewSubcategoryId(id)
    \/ HandleCreateTransaction
    \/ \E q \in detailPending, o \in RequestOutcomes : CreateTransactionResponse(q, o)
    \/ \E text \in QuickAddTexts : SetQuickAddText(text)
    \/ HandleQuickAddFromText
    \/ \E q \in detailPending, o \in RequestOutcomes, draft \in Drafts : ClassifyResponse(q, o, draft)
    \/ \E type \in Types : ChangeType(type)
    \/ \E id \in Ids(categories) : ChangeCategory(id)
    \/ \E id \in SubcategoryIds : SetSubcategoryId(id)
    \/ HandleCancelConfirmation

SpecDropdowns == InitLoaded /\ [][NextDropdowns]_vars

\* the service worker from its installation on, over the caches an earlier
\* version left
NextWorker ==
    \/ \E added \in BOOLEAN : Install(added)
    \/ Activate
    \/ Activated
    \/ \E i \in 1..MaxFetchEvents, request \in SwRequests : FetchEvent(i, request)
    \/ \E i \in 1..MaxFetchEvents : MatchAnswered(i)
    \/ \E i \in 1..MaxFetchEvents, outcome \in NetworkOutcomes : NetworkAnswered(i, outcome)
    \/ \E i \in 1..MaxFetchEvents : OfflineAnswered(i)
    \/ \E i \in 1..MaxFetchEvents : CachePut(i)

InitWorkerSession ==
    /\ InitAuth /\ InitWallets /\ InitApi /\ InitDetail /\ InitDashboardState /\ InitHistory
    /\ InitWorker(OldCaches) /\ InitToast /\ InitCategories

SpecWorker == InitWorkerSession /\ [][NextWorker]_vars

NextToast ==
    \/ \E message \in ToastMessages, type \in ToastTypes : ShowToast(message, type)
    \/ TimePasses
    \/ ToastTimerFires
    \/ ToastClose

SpecToast == Init /\ [][NextToast]_vars

InitCategoriesSession ==
    InitSession("/categories") /\ InitWallets /\ InitApi /\ InitDetail /\ InitMore /\ InitHistory

NextCategories ==
    \/ CategoriesMount
    \/ \E filterType \in FilterTypes : SetCategoriesFilter(filterType)
    \/ \E q \in categoriesPending, o \in RequestOutcomes, data \in ListedCategoryLists :
         FetchListedCategoriesResponse(q, o, data)
    \/ \E id \in Ids(categoryList), confirmed \in BOOLEAN : HandleDeleteCategory(id, confirmed)
    \/ \E q \in categoriesPending, o \in RequestOutcomes : DeleteCategoryResponse(q, o)

SpecCategories == InitCategoriesSession /\ [][NextCategories]_vars

InitDashboardSession ==
    InitSession("/dashboard") /\ InitWallets /\ InitApi /\ InitDetail /\ InitMore /\ InitHistory

NextDashboard ==
    \/ DashboardMount
    \/ DashboardChangeLanguage
    \/ \E i \in 1..MaxDashboardFetches, o \in DashboardOutcomes, data \in WalletLists :
         DashboardWalletsResponse(i, o, data)
    \/ \E i \in 1..MaxDashboardFetches, o \in DashboardOutcomes, data \in DashboardTransactionLists :
         DashboardTransactionsResponse(i, o, data)

SpecDashboard == InitDashboardSession /\ [][NextDashboard]_vars

NextApi ==
    \/ \E r \in Responses : Fetch(r)
    \/ Handle

SpecApi == Init /\ [][NextApi]_vars

-----------------------------------------------------------------------------
(* Properties of the auth specification *)

\* base64(username:password) of the last login() that returned true
LastLoginCredentials == Btoa(CredentialString(lastLogin[1], lastLogin[2]))

C3_NothingSentAfterLogout ==
    afterLogout =>
        /\ sessionStorage = Null
        /\ currentUser = Null
        /\ \A request \in sent : request.headers.authorization = NoAuthorization

\* C3 witness: after logout a handler still running sent a request with includeAuth
C3_Witness ==
    /\ afterLogout
    /\ \E request \in sent : request.fn = "getJson" /\ request.includeAuth

\* C4: a protected page is rendered only while currentUser is non-null, the login
\* and register pages only while currentUser is null, and a path that matches no
\* route redirects to /dashboard when currentUser is non-null and to /login when it
\* is null.
C4_RoutesGuardedByNull ==
    /\ ~Rendered.navigate
    /\ Rendered.page \in ProtectedPaths => currentUser # Null
    /\ Rendered.page \in PublicPaths => currentUser = Null
    /\ \A path \in Paths \ (PublicPaths \cup ProtectedPaths) :
          RouteElement(path, currentUser)
             = Navigate(IF currentUser # Null THEN "/dashboard" ELSE "/login")

\* local@domain.tld: three parts of one character or more, none with a space or
\* an '@' in it (domain.tld may hold further dots)
HasEmailForm(email) ==
    \E a \in 2..Len(email), d \in 4..(Len(email) - 1) :
      /\ email[a] = 64 /\ email[d] = 46 /\ a + 1 < d
      /\ \A i \in (1..Len(email)) \ {a} : email[i] \notin {32, 64}

RegisterRequest == PostJson("/api/auth/register", FALSE)

\* C14: a POST to /api/auth/register is sent only by a submit of the register
\* form whose validations passed: the username of its body has at least 3
\* characters, its email has the form local@domain.tld without whitespace, its
\* password has at least 6 characters and equals the confirmation; any other
\* submit shows an error toast and sends nothing.
C14_RegisterOnlyWhenValid ==
    [][ /\ RegisterRequest \in sent' =>
             /\ lastEvent'.name = "RegisterSubmit" /\ lastEvent'.body # <<>>
             /\ Len(lastEvent'.body[1].username) >= 3
             /\ HasEmailForm(lastEvent'.body[1].email)
             /\ Len(lastEvent'.body[1].password) >= 6
             /\ lastEvent'.body[1].password = lastEvent'.confirmPassword
        /\ (lastEvent'.name = "RegisterSubmit" /\ lastEvent'.body = <<>>) =>
             /\ sent' = {}
             /\ registerPending' = registerPending
             /\ registerPage'.toast.type = "error"
      ]_vars

-----------------------------------------------------------------------------
(* Properties of the wallets page *)

\* C6: a wallet creation that succeeds leaves the displayed list equal to the list
\* displayed just before with the wallet the server returned appended at the end; a
\* creation that fails leaves the list as it was; and submitting a blank name sends
\* no request and leaves the list as it was.
C6_CreateAppendsToDisplayedList ==
    [][ /\ (lastEvent'.name = "CreateWalletResponse" /\ lastEvent'.result.kind = "value")
             => wallets' = Append(wallets, lastEvent'.newWallet)
        /\ (lastEvent'.name = "CreateWalletResponse" /\ lastEvent'.result.kind # "value")
             => wallets' = wallets
        /\ (lastEvent'.name = "CreateWalletSubmit" /\ Falsy(Trim(lastEvent'.walletName)))
             => sent' = {} /\ wallets' = wallets
      ]_vars

-----------------------------------------------------------------------------
(* Properties of the wallet detail page *)

\* an amount text that is empty, not a number, zero or negative
NotPositive(text) == ParseFloat(text).nan \/ ParseFloat(text).milli <= 0

\* C5: submitting the create-transaction form or the quick-add confirmation form
\* while its amount is empty, not a number, zero or negative sends no POST to the
\* transactions path, starts no request, and leaves the transaction list as it was.
C5_NonPositiveAmountRejected ==
    [][ (/\ lastEvent'.name \in {"handleCreateTransaction", "handleSubmit"}
         /\ NotPositive(lastEvent'.amount))
          => /\ PostJson(TransactionsPath, TRUE) \notin sent'
             /\ detailPending' = detailPending
             /\ transactions' = transactions
      ]_vars

\* C5 witness: the confirmation form was submitted with the amount "0" and a
\* category selected (its submit button enabled), and nothing was sent
C5_Witness ==
    /\ lastEvent.name = "handleSubmit"
    /\ lastEvent.amount = <<48>>
    /\ confirmation.mounted /\ confirmation.categoryId # ""
    /\ sent = {}

\* the sum of the amounts of the transactions of ts that have the type
SumOfType(ts, type) ==
    LET indices == { i \in 1..Len(ts) : ts[i].type = type }
        RECURSIVE Sum(_)
        Sum(S) == IF S = {} THEN 0
                  ELSE LET i == CHOOSE j \in S : TRUE IN ts[i].amount + Sum(S \ {i})
    IN Sum(indices)

\* C7: when a confirmed delete of transaction t succeeds, the displayed list
\* becomes the list displayed just before without t (t is gone, every other
\* transaction stays, in order), the tracked balance goes down by t.amount for a
\* CREDIT and up by t.amount for a DEBIT, and the balance derived from the list is
\* the remaining credits minus the remaining debits; when the request fails or the
\* user declines the confirmation, list and balance stay as they were.
C7_DeleteRemovesOnlyTheTransaction ==
    [][ /\ (lastEvent'.name = "DeleteTransactionResponse" /\ lastEvent'.result.kind = "value")
             => LET id        == lastEvent'.transactionId
                    remaining == SelectSeq(transactions, LAMBDA x : x.id # id)
                    t         == SelectSeq(transactions, LAMBDA x : x.id = id)
                IN /\ transactions' = remaining
                   /\ (t # <<>> /\ wallet.loaded) =>
                        wallet'.balance =
                            IF t[1].type = "CREDIT" THEN wallet.balance - t[1].amount
                            ELSE wallet.balance + t[1].amount
                   /\ DerivedBalance(transactions') =
                        SumOfType(remaining, "CREDIT") - SumOfType(remaining, "DEBIT")
        /\ (lastEvent'.name = "DeleteTransactionResponse" /\ lastEvent'.result.kind # "value")
             => transactions' = transactions /\ wallet' = wallet
        /\ (lastEvent'.name = "handleDeleteTransaction" /\ ~lastEvent'.confirmed)
             => sent' = {} /\ transactions' = transactions /\ wallet' = wallet
      ]_vars

\* the position of the first category of the list that has the type, or 0
FirstIndexOfType(type) ==
    LET indices == { i \in 1..Len(categories) : categories[i].type = type } IN
    IF indices = {} THEN 0 ELSE CHOOSE i \in indices : \A j \in indices : i <= j

\* the id of the first subcategory of the category, or ''
FirstSubcategoryOf(category) ==
    IF Len(category.subcategories) = 0 THEN "" ELSE category.subcategories[1].id

\* C8: in the confirmation modal, after type T was selected the selected category
\* is the first category of the list whose type is T and the selected subcategory
\* that category's first subcategory, or empty if it has none; both are empty if no
\* category has type T.  After a category was selected, the selected subcategory is
\* that category's first subcategory, or empty if it has none.
C8_TypeAndCategoryChange ==
    /\ lastEvent.name = "handleTypeChange" =>
         LET first == FirstIndexOfType(lastEvent.newType) IN
         IF first = 0
         THEN confirmation.categoryId = "" /\ confirmation.subcategoryId = ""
         ELSE /\ confirmation.categoryId = categories[first].id
              /\ confirmation.subcategoryId = FirstSubcategoryOf(categories[first])
    /\ lastEvent.name = "handleCategoryChange" =>
         /\ confirmation.categoryId = lastEvent.newCategoryId
         /\ \A i \in 1..Len(categories) :
              categories[i].id = lastEvent.newCategoryId =>
                  confirmation.subcategoryId = FirstSubcategoryOf(categories[i])

\* C8 witness: with the categories Rent, Salary, Food, CREDIT was selected in the
\* modal of a DEBIT draft and the selection became Salary / Bonus
C8_Witness ==
    /\ lastEvent.name = "handleTypeChange" /\ lastEvent.newType = "CREDIT"
    /\ categories = <<Rent, Salary, Food>>
    /\ detailPage.transactionDraft # <<>> /\ detailPage.transactionDraft[1].type = "DEBIT"
    /\ confirmation.categoryId = "c3" /\ confirmation.subcategoryId = "s3"

\* C9: a POST to the transactions path is sent by the quick-add flow only when the
\* confirmation form is submitted while a draft is held and its modal is open, and
\* a draft comes to be held only when a classify request returns one; the step in
\* which the classify response arrives sends nothing and leaves the transaction
\* list as it was; and a classify request is sent only for a text that is not
\* blank.  (The only other sender of that POST is the create-transaction form.)
C9_QuickAddPostsAfterDraftAndSubmit ==
    [][ /\ PostJson(TransactionsPath, TRUE) \in sent' =>
             \/ lastEvent'.name = "handleCreateTransaction"
             \/ /\ lastEvent'.name = "handleSubmit"
                /\ detailPage.transactionDraft # <<>>
                /\ detailPage.showConfirmationModal
        /\ (detailPage.transactionDraft = <<>> /\ detailPage'.transactionDraft # <<>>) =>
             lastEvent'.name = "ClassifyResponse" /\ lastEvent'.result.kind = "value"
        /\ lastEvent'.name = "ClassifyResponse" =>
             sent' = {} /\ transactions' = transactions
        /\ PostJson(ClassifyPath, TRUE) \in sent' =>
             /\ lastEvent'.name = "handleQuickAddFromText"
             /\ Trim(lastEvent'.text) # <<>>
        /\ (lastEvent'.name = "handleQuickAddFromText" /\ Trim(lastEvent'.text) = <<>>) =>
             sent' = {} /\ detailPending' = detailPending
      ]_vars

\* C9 witness: the confirmation form of a draft was submitted and the POST sent
C9_Witness ==
    /\ lastEvent.name = "handleSubmit"
    /\ detailPage.transactionDraft # <<>>
    /\ detailPage.isConfirmingTransaction
    /\ sent = {PostJson(TransactionsPath, TRUE)}

\* the create form has a category of its type selected, with that category's
\* first subcategory, if there is a category of its type
CategorySelected ==
    \A i \in DOMAIN categories :
      categories[i].type = form.newType =>
        \E j \in DOMAIN categories :
          /\ categories[j].type = form.newType
          /\ form.newCategoryId = categories[j].id
          /\ form.newSubcategoryId = FirstSubcategoryOf(categories[j])

\* C18: in the create-transaction form, once the effects have run and a loaded
\* category has the form's type, the selected category is one of that type (not
\* empty) and the selected subcategory is its first subcategory, or empty if it
\* has none: after the categories loaded, after every change of the type, and
\* after a successful creation reset the form.
C18_CategoryAutoSelected ==
    /\ [](lastEvent.name = "Init" => CategorySelected)
    /\ [][ (\/ form'.newType # form.newType
            \/ categories' # categories
            \/ (lastEvent'.name = "CreateTransactionResponse"
                  /\ lastEvent'.result.kind = "value"))
          => CategorySelected' ]_vars

\* the draft is held whenever the confirmation modal is open
OpenModalHasDraft ==
    detailPage.showConfirmationModal => detailPage.transactionDraft # <<>>

ConfirmationOutcome ==
    lastEvent'.name = "ConfirmTransactionResponse" =>
      IF lastEvent'.result.kind # "value"
      THEN /\ detailPage'.transactionDraft = detailPage.transactionDraft
           /\ detailPage'.showConfirmationModal = detailPage.showConfirmationModal
           /\ detailPage'.quickAddText = detailPage.quickAddText
           /\ transactions' = transactions
           /\ confirmation' = confirmation
           /\ lastEvent'.toast.type = "error"
           /\ ~detailPage'.isConfirmingTransaction
      ELSE /\ transactions' # <<>> /\ transactions'[1] = lastEvent'.transaction
           /\ ~detailPage'.showConfirmationModal
           /\ detailPage'.transactionDraft = <<>>
           /\ detailPage'.quickAddText = <<>>
           /\ ~confirmation'.mounted
           /\ ~detailPage'.isConfirmingTransaction

\* C19: when the POST of a confirmed draft fails, the draft, the open state of
\* the confirmation modal, the quick-add text and the transaction list stay as
\* they are, an error toast is shown and isConfirmingTransaction is false again;
\* when it succeeds the returned transaction is first in the list, the modal is
\* closed, the draft cleared and the quick-add text emptied.  An open
\* confirmation modal always has a draft.
C19_ConfirmationOutcome == []OpenModalHasDraft /\ [][ConfirmationOutcome]_vars

\* C19 witness: the confirmation failed, and the modal is still open over its
\* draft with the quick-add text in place
C19_Witness ==
    /\ lastEvent.name = "ConfirmTransactionResponse"
    /\ lastEvent.result.kind # "value"
    /\ detailPage.showConfirmationModal /\ confirmation.mounted
    /\ detailPage.transactionDraft # <<>>
    /\ detailPage.quickAddText # <<>>

-----------------------------------------------------------------------------
(* Properties of the Dropdowns of the transaction forms *)

\* the value a Dropdown is given is empty or the value of one of its options
ValueIsOption(options, value) == value = "" \/ SelectedOption(options, value) # <<>>

\* the values of the options of a list that are not disabled
EnabledValues(options) == { options[i].value : i \in { j \in DOMAIN options : ~options[j].disabled } }

\* the options of the Dropdown an onChange event came from, in the state before it
OptionsOf(dropdown) ==
    CASE dropdown = "newCategoryId"    -> CategoryOptions(categories, form.newType)
      [] dropdown = "newSubcategoryId" -> SubcategoryOptions(categories, form.newCategoryId)
      [] dropdown = "categoryId"       -> CategoryOptions(categories, confirmation.type)
      [] dropdown = "subcategoryId"    -> SubcategoryOptions(categories, confirmation.categoryId)

DropdownValues ==
    /\ (DetailShown /\ detailPage.showModal) =>
         /\ ValueIsOption(CategoryOptions(categories, form.newType), form.newCategoryId)
         /\ ValueIsOption(SubcategoryOptions(categories, form.newCategoryId),
                          form.newSubcategoryId)
    /\ (DetailShown /\ confirmation.mounted) =>
         /\ ValueIsOption(CategoryOptions(categories, confirmation.type),
                          confirmation.categoryId)
         /\ ValueIsOption(SubcategoryOptions(categories, confirmation.categoryId),
                          confirmation.subcategoryId)

DropdownChanges ==
    /\ lastEvent'.name = "onChange" =>
         lastEvent'.value \in EnabledValues(OptionsOf(lastEvent'.dropdown))
    /\ lastEvent'.name = "handleCategoryChange" =>
         lastEvent'.newCategoryId \in EnabledValues(OptionsOf("categoryId"))

-----------------------------------------------------------------------------
(* Properties of the dashboard *)

\* C11: every request of fetchData that ends in an error shows an error toast, and
\* the request that failed is not sent again.
C11_EveryFailureToasts ==
    [][ (lastEvent'.name = "fetchData" /\ lastEvent'.result.kind # "value")
          => /\ lastEvent'.toast.type = "error"
             /\ lastEvent'.asked = 0 \/ lastEvent'.asked # lastEvent'.wallet
             /\ GetJson("/api/wallets", TRUE) \notin sent'
      ]_vars

-----------------------------------------------------------------------------
(* Properties of the service worker *)

StartsWith(s, prefix) == Len(s) >= Len(prefix) /\ SubSeq(s, 1, Len(prefix)) = prefix

\* a URL the worker must keep out of its cache: not http(s), or with '/api/' in it
UncacheableUrl(url) ==
    \/ ~(StartsWith(url, <<104, 116, 116, 112, 58, 47, 47>>) \/ StartsWith(url, <<104, 116, 116, 112, 115, 58, 47, 47>>))
    \/ \E i \in 1..Len(url) : StartsWith(SubSeq(url, i, Len(url)), <<47, 97, 112, 105, 47>>)

\* a request the worker must leave to the browser
Uncacheable(request) == request.method # "GET" \/ UncacheableUrl(request.url)

\* the requests the worker is answering or caching
InHand == { fetchEvents[i].request : i \in { j \in DOMAIN fetchEvents : fetchEvents[j] # Idle } }

NothingUncacheableInHand ==
    /\ \A request \in InHand : ~Uncacheable(request)
    /\ \A i \in DOMAIN caches : \A e \in caches[i].entries : ~UncacheableUrl(e.url)
    /\ lastEvent.name \in {"respondWith", "cache.put", "fetch(request)", "catch"}
         => ~Uncacheable(lastEvent.request)

UncacheableLeftAlone ==
    (lastEvent'.name = "fetch" /\ Uncacheable(lastEvent'.request))
      => /\ ~lastEvent'.handled
         /\ fetchEvents' = fetchEvents
         /\ caches' = caches

\* C13: a request that is not GET, whose URL contains '/api/' or whose protocol
\* is neither http nor https is never taken up by the worker: it is not answered
\* by respondWith (from the cache or otherwise), and nothing is written to a
\* cache for it.
C13_UncacheableRequestsBypassTheCache ==
    []NothingUncacheableInHand /\ [][UncacheableLeftAlone]_vars

\* C13 witness: a POST arrived for a URL the cache holds, and was left alone
C13_Witness ==
    /\ lastEvent.name = "fetch"
    /\ lastEvent.request.method = "POST"
    /\ CachesMatch(caches, lastEvent.request.url) # <<>>
    /\ ~lastEvent.handled

\* the caches of storage whose name is not name
CachesOtherThan(storage, name) == SelectSeq(storage, LAMBDA c : c.name # name)

\* the events whose handling moved in this step
Moved == { i \in DOMAIN fetchEvents : fetchEvents'[i] # fetchEvents[i] }

\* a cache hit is answered from the cache, and only a miss goes to the network
HitOrNetwork ==
    \A i \in Moved :
      fetchEvents[i].stage = "match" =>
        LET hit == CachesMatch(caches, fetchEvents[i].request.url) IN
        IF hit # <<>>
        THEN fetchEvents'[i] = Idle
             /\ lastEvent' = RespondWith(fetchEvents[i].request, "cache", hit)
        ELSE fetchEvents'[i].stage = "fetch" /\ lastEvent'.name # "respondWith"

\* the network's response is the answer, and is put in the cache when it is a
\* 200 of type 'basic'
NetworkResponseStored ==
    \A i \in Moved :
      /\ (fetchEvents[i].stage = "fetch" /\ lastEvent'.name = "respondWith"
            /\ lastEvent'.response # <<>>)
           => /\ lastEvent'.via = "network"
              /\ (fetchEvents'[i].stage = "put") <=>
                   (lastEvent'.response[1].status = 200 /\ lastEvent'.response[1].type = "basic")
              /\ fetchEvents'[i].stage = "put" =>
                   fetchEvents'[i].responseToCache = lastEvent'.response[1]
      /\ fetchEvents[i].stage = "put"
           => /\ CachesMatch(caches', fetchEvents[i].request.url)
                   = <<fetchEvents[i].responseToCache>>
              /\ CachesOtherThan(caches', CACHE_NAME) = CachesOtherThan(caches, CACHE_NAME)

\* while the worker handles fetch events only such a put changes a cache
OnlyGoodResponsesStored ==
    (worker.phase = "activated" /\ caches' # caches)
      => /\ lastEvent'.name = "cache.put"
         /\ lastEvent'.response.status = 200 /\ lastEvent'.response.type = "basic"
         /\ lastEvent'.response.from = "network"

\* a navigation that found neither a cached response nor the network gets the
\* cached /index.html
OfflineNavigation ==
    \A i \in Moved :
      /\ (fetchEvents[i].stage = "fetch" /\ lastEvent'.name = "catch")
           => fetchEvents[i].request.mode = "navigate" /\ fetchEvents'[i].stage = "offline"
      /\ fetchEvents[i].stage = "offline"
           => /\ lastEvent'.name = "respondWith"
              /\ lastEvent'.response # <<>>
              /\ lastEvent'.response = CachesMatch(caches, AbsoluteUrl(<<47, 105, 110, 100, 101, 120, 46, 104, 116, 109, 108>>))

\* C16: a cacheable GET request with a match in the caches is answered with it
\* and the network is not asked; without a match the network is asked, and its
\* response is stored in cache 'finance-control-v1' exactly when its status is
\* 200 and its type 'basic'; a navigation request for which cache and network
\* both failed is answered with the cached /index.html.
C16_CacheFirstThenNetwork ==
    [][HitOrNetwork /\ NetworkResponseStored /\ OnlyGoodResponsesStored
         /\ OfflineNavigation]_vars

\* C17: when the activate step is over, no cache with a name other than
\* 'finance-control-v1' is left, the cache of that name is as it was, and it
\* stays so while the worker handles fetch events.
C17_ActivateDeletesOldCaches ==
    /\ worker.phase = "activated" =>
          \A i \in DOMAIN caches : caches[i].name = CACHE_NAME
    /\ lastEvent.name = "activated" =>
          /\ CachesOtherThan(caches, CACHE_NAME) = <<>>
          /\ caches = SelectSeq(lastEvent.before, LAMBDA c : c.name = CACHE_NAME)

\* C17 witness: activation ended over an old cache and a filled current one
C17_Witness ==
    /\ lastEvent.name = "activated"
    /\ CachesOtherThan(lastEvent.before, CACHE_NAME) # <<>>
    /\ Len(caches) = 1 /\ caches[1].entries # {}

-----------------------------------------------------------------------------
(* Properties of the categories page *)

\* the categories of the list with this id that are default
DefaultWithId(id) == SelectSeq(categoryList, LAMBDA c : c.id = id /\ c.isDefault)

\* C20: on the categories page a delete of a default category sends no DELETE,
\* leaves the list as it is and shows an error toast; the list loses a category
\* of its own accord only when a DELETE the user confirmed has succeeded, and it
\* then loses exactly that category.
C20_DeleteCategory ==
    [][ /\ (lastEvent'.name = "handleDeleteCategory"
              /\ DefaultWithId(lastEvent'.categoryId) # <<>>)
             => /\ sent' = {} /\ categoriesPending' = categoriesPending
                /\ categoryList' = categoryList
                /\ lastEvent'.toast.type = "error"
        /\ DeleteJson("/api/categories/:id", TRUE) \in sent'
             => /\ lastEvent'.name = "handleDeleteCategory" /\ lastEvent'.confirmed
                /\ DefaultWithId(lastEvent'.categoryId) = <<>>
        /\ (lastEvent'.name # "fetchCategories" /\ categoryList' # categoryList)
             => /\ lastEvent'.name = "DeleteCategoryResponse"
                /\ lastEvent'.result.kind = "value"
                /\ categoryList' =
                     SelectSeq(categoryList, LAMBDA c : c.id # lastEvent'.categoryId)
        /\ (lastEvent'.name = "DeleteCategoryResponse" /\ lastEvent'.result.kind = "value")
             => categoryList' = SelectSeq(categoryList, LAMBDA c : c.id # lastEvent'.categoryId)
      ]_vars

-----------------------------------------------------------------------------
(* Properties of Toast *)

\* C15: a message shown by showToast stays visible for duration milliseconds
\* from the moment it was shown, unless the user closes it, and is hidden then;
\* also a message that replaces one that is still visible.
C15_ToastVisibleForDuration ==
    /\ toastState # <<>> => toastShownFor <= duration
    /\ (lastEvent.name = "hideToast" /\ lastEvent.by = "timer") => lastEvent.shownFor = duration

-----------------------------------------------------------------------------
(* Properties of lib/api *)

\* 'HTTP Error: <status>' written out for the statuses of the model
HttpErrorText(status) ==
    <<72, 84, 84, 80, 32, 69, 114, 114, 111, 114, 58, 32>> \o
    CASE status = 300 -> <<51, 48, 48>>
      [] status = 304 -> <<51, 48, 52>>
      [] status = 400 -> <<52, 48, 48>>
      [] status = 401 -> <<52, 48, 49>>
      [] status = 404 -> <<52, 48, 52>>
      [] status = 500 -> <<53, 48, 48>>

\* C10: for a response whose status is not 2xx the call fails with an ApiError
\* carrying that status and, as message, the body's non-empty 'message', else its
\* non-empty 'error', else 'HTTP Error: <status>' (the latter also when the body is
\* not a JSON object); for a 2xx response the call never fails with an ApiError,
\* and with an empty body it returns the empty object.
C10_HandleResponse ==
    apiResult # Pending =>
        LET status == apiResponse.status
            body   == apiResponse.body
        IN
        /\ status \notin 200..299 =>
             /\ apiResult.kind = "ApiError"
             /\ apiResult.status = status
             /\ apiResult.message =
                  IF body.kind = "object" /\ body.message \notin {Null, <<>>}
                  THEN body.message
                  ELSE IF body.kind = "object" /\ body.error \notin {Null, <<>>}
                  THEN body.error
                  ELSE HttpErrorText(status)
        /\ status \in 200..299 =>
             /\ apiResult.kind # "ApiError"
             /\ body.kind = "empty" => apiResult.kind = "value" /\ apiResult.value = "{}"

\* C10 witness: a 404 whose body carries both fields failed with the 'message'
C10_Witness ==
    /\ apiResponse = Response(404, Body("object", <<109>>, <<101>>))
    /\ apiResult = ApiError(404, <<109>>)


\* the create and delete requests of the page that await their response
ChangesInFlight == { q \in detailPending : q.kind \in {"create", "delete"} }

\* the ids of the transactions the backend created for the page
CreatedIds == { Len(StoredTransactions) + n : n \in 1..transactionsCreated }

\* C21: on the loaded wallet detail page, whenever no create or delete request
\* is in flight and all of them have succeeded, the displayed list holds the
\* loaded transactions and every created one, but for the deleted ones, and the
\* tracked balance has moved from the loaded balance by the signed amounts of
\* exactly those changes.
C21_ConcurrentChangesAllShow ==
    ChangesInFlight = {} =>
        /\ Ids(transactions) = (Ids(StoredTransactions) \cup CreatedIds) \ transactionsDeleted
        /\ wallet.balance - StoredWallet.balance
             = DerivedBalance(transactions) - DerivedBalance(StoredTransactions)


\* C22: on the loaded wallet detail page, whenever no request for the
\* transaction list is in flight, the displayed list is what the backend answers
\* the request for the currently selected filters with, whatever the order in
\* which the responses of earlier requests arrived.
C22_ListIsForCurrentFilters ==
    (DetailShown /\ TransactionFetches = {}) =>
        transactions = Matching(StoredTransactions, SearchParams(filters))

=============================================================================
